---- MODULE Spec2Model ----
(***************************************************************************)
(* Model of the AirTouch4 integration: the driver's cached unit/zone       *)
(* objects, the coordinator poll and its committed snapshot, the zone and  *)
(* manual-climate entities, and the periodic manual-climate controller.    *)
(*                                                                         *)
(* Temperatures are integers in tenths of a degree (24.0 is 240).  A       *)
(* Python attribute that may be missing from a driver object is a          *)
(* sequence: << >> when the attribute is absent, <<v>> when it holds v;    *)
(* the same encoding is used for None / a value.                           *)
(***************************************************************************)
EXTENDS Integers, Sequences, FiniteSets, TLC

VARIABLES
    acs,                \* airtouch.GetAcs(): ac number -> driver unit object
    groups,             \* airtouch groups: group number -> driver zone object
    Status,             \* airtouch.Status after the last UpdateInfo
    data,               \* coordinator.data, the committed snapshot
    last_update_success,\* coordinator.last_update_success
    manual_climates,    \* hass.data[DOMAIN]["manual_climates"], a list of entities
    calls,              \* driver commands issued by the last handler, in order
    last,               \* what the last handler was, its inputs and its result
    entry,              \* the config entry: its data and whether it is loaded
    intervals,          \* the listeners registered with async_track_time_interval
    in_flight,          \* the handlers suspended in an await of a driver call
    ac_entities,        \* the AirtouchAC entities: ac number -> the entity's fields
    flow                \* the config flow in progress and the entries its results created

vars == <<acs, groups, Status, data, last_update_success, manual_climates, calls, last,
          entry, intervals, in_flight, ac_entities, flow>>

\* what a handler that runs to completion on a loaded entry leaves alone
runtime == <<entry, intervals, in_flight, ac_entities, flow>>

----------------------------------------------------------------------------
(* const.py *)

MIN_FAN_SPEED == 20
MAX_FAN_SPEED == 100
\* 40.0 and 15.0, in tenths of a degree
AUTO_MAX_TEMP == 400
AUTO_MIN_TEMP == 150

\* ManualNonITCClimate.__init__: self._target_temp = 24.0
DEFAULT_TARGET_TEMP == 240

----------------------------------------------------------------------------
(* Python helpers *)

\* getattr(obj, name, default) on an attribute that may be absent
getattr(attr, default) == IF attr = << >> THEN default ELSE attr[1]

\* the attribute name of a driver object: absent when the object was built
\* without it
attribute(obj, name) == IF name \in DOMAIN obj THEN obj[name] ELSE << >>

hasattr(attr) == attr # << >>

Sign(n) == IF n > 0 THEN 1 ELSE IF n < 0 THEN -1 ELSE 0

Abs(n) == IF n < 0 THEN -n ELSE n

\* int(num / den) for den # 0: truncation toward zero
int(num, den) ==
    LET q == Abs(num) \div Abs(den)
    IN  IF Sign(num) * Sign(den) < 0 THEN -q ELSE q

\* round(desired / 5) * 5 for an integer desired: desired / 5 is never
\* halfway between two integers, so round-half-even is round-to-nearest
round5(desired) == ((desired + 2) \div 5) * 5

\* a call that returned value v, and a call that raised exception e
Return(v) == [exc |-> "", value |-> v]

Raise(e) == [exc |-> e, value |-> 0]

\* no config flow was started
NoFlow == [step |-> "none", entries |-> << >>]

----------------------------------------------------------------------------
(* The external temperature sensors (hass.states) *)

\* hass.states.get(entity_id) is None
NoState == [state |-> "None", number |-> 0]

\* a state object whose state string is s and is not a number
TextState(s) == [state |-> s, number |-> 0]

\* a state object whose state string is the decimal n / 10
NumberState(n) == [state |-> "number", number |-> n]

\* float(state_obj.state): ValueError unless the string is a decimal number
float(state_obj) ==
    IF state_obj.state = "number" THEN Return(state_obj.number)
    ELSE Raise("ValueError")

\* current_temperature without its guards: a state that is not a number
\* reads as 0.0
current_temperature_unguarded(e, states) ==
    IF e._sensor_entity_id = << >> THEN << >>
    ELSE <<states[e._sensor_entity_id[1]].number>>

\* ManualNonITCClimate.current_temperature: << >> is None
current_temperature(e, states) ==
    IF e._sensor_entity_id = << >> THEN << >>
    ELSE LET state_obj == states[e._sensor_entity_id[1]]
         IN  IF state_obj = NoState \/ state_obj.state \in {"unknown", "unavailable"}
             THEN << >>
             ELSE IF float(state_obj).exc = "ValueError" THEN << >>
             ELSE <<float(state_obj).value>>

----------------------------------------------------------------------------
(* The control law *)

COOL_MODES == {"Cool", "AutoCool", "Auto", "Dry"}

HEAT_MODES == {"Heat", "AutoHeat"}

\* int(MIN_FAN_SPEED + fraction * (MAX_FAN_SPEED - MIN_FAN_SPEED)) where
\* fraction = min(num / den, 1.0), num > 0 and den # 0.  The arithmetic is
\* exact; the code computes in binary floating point, whose result lies
\* within rounding error of the exact one.  Only when the exact value is an
\* integer v can that error move int() to another integer, the neighbour of
\* v toward zero: fp_low says that it did.
\* scaled_speed without the cap at MAX_FAN_SPEED
scaled_speed_uncapped(num, den, fp_low) ==
    LET span == MAX_FAN_SPEED - MIN_FAN_SPEED
        v == int(MIN_FAN_SPEED * den + span * num, den)
    IN  IF fp_low /\ (span * num) % Abs(den) = 0 THEN v - Sign(v) ELSE v

scaled_speed(num, den, fp_low) ==
    IF den > 0 /\ num >= den THEN MAX_FAN_SPEED
    ELSE LET span == MAX_FAN_SPEED - MIN_FAN_SPEED
             v == int(MIN_FAN_SPEED * den + span * num, den)
         IN  IF fp_low /\ (span * num) % Abs(den) = 0 THEN v - Sign(v) ELSE v

\* _calculate_open_percentage without the tests that the reading is on the
\* demand side
_calculate_open_percentage_unfloored(group_obj, current, target, ac_mode, fp_low) ==
    IF ac_mode \in COOL_MODES THEN
        IF AUTO_MAX_TEMP - target = 0 THEN Raise("ZeroDivisionError")
        ELSE Return(scaled_speed(current - target, AUTO_MAX_TEMP - target, fp_low))
    ELSE IF ac_mode \in HEAT_MODES THEN
        IF target - AUTO_MIN_TEMP = 0 THEN Raise("ZeroDivisionError")
        ELSE Return(scaled_speed(target - current, target - AUTO_MIN_TEMP, fp_low))
    ELSE Return(getattr(group_obj.OpenPercentage, MIN_FAN_SPEED))

\* _calculate_open_percentage with the minimum in place of the zone's own
\* aperture in the last branch
_calculate_open_percentage_minimum(group_obj, current, target, ac_mode, fp_low) ==
    IF ac_mode \in COOL_MODES THEN
        IF current <= target THEN Return(MIN_FAN_SPEED)
        ELSE IF AUTO_MAX_TEMP - target = 0 THEN Raise("ZeroDivisionError")
        ELSE Return(scaled_speed(current - target, AUTO_MAX_TEMP - target, fp_low))
    ELSE IF ac_mode \in HEAT_MODES THEN
        IF current >= target THEN Return(MIN_FAN_SPEED)
        ELSE IF target - AUTO_MIN_TEMP = 0 THEN Raise("ZeroDivisionError")
        ELSE Return(scaled_speed(target - current, target - AUTO_MIN_TEMP, fp_low))
    ELSE Return(MIN_FAN_SPEED)

\* ManualNonITCClimate._calculate_open_percentage(current, target, ac_mode);
\* group_obj is GetGroupByGroupNumber(self._group_number)
_calculate_open_percentage(group_obj, current, target, ac_mode, fp_low) ==
    IF ac_mode \in COOL_MODES THEN
        IF current <= target THEN Return(MIN_FAN_SPEED)
        ELSE IF AUTO_MAX_TEMP - target = 0 THEN Raise("ZeroDivisionError")
        ELSE Return(scaled_speed(current - target, AUTO_MAX_TEMP - target, fp_low))
    ELSE IF ac_mode \in HEAT_MODES THEN
        IF current >= target THEN Return(MIN_FAN_SPEED)
        ELSE IF target - AUTO_MIN_TEMP = 0 THEN Raise("ZeroDivisionError")
        ELSE Return(scaled_speed(target - current, target - AUTO_MIN_TEMP, fp_low))
    ELSE Return(getattr(group_obj.OpenPercentage, MIN_FAN_SPEED))

----------------------------------------------------------------------------
(* The device driver (airtouch4pyapi), at its interface: a command that    *)
(* succeeds updates the driver's cached object from the device's reply.    *)

\* TurnGroupOn / TurnGroupOff
SetGroupPower(grp, g, power) ==
    [grp EXCEPT ![g] = [@ EXCEPT !.PowerState = <<power>>]]

\* TurnAcOn / TurnAcOff; a unit number the driver does not hold is ignored
SetAcPower(ac, n, power) ==
    IF n \in DOMAIN ac THEN [ac EXCEPT ![n] = [@ EXCEPT !.PowerState = <<power>>]]
    ELSE ac

\* SetGroupToPercentage: the damper takes a percentage in 0..100 and
\* ignores any other value
SetGroupToPercentage(grp, g, percent) ==
    IF percent \in 0..100
    THEN [grp EXCEPT ![g] = [@ EXCEPT !.OpenPercentage = <<percent>>]]
    ELSE grp

\* SetCoolingModeForAc; a unit number the driver does not hold is ignored
SetCoolingModeForAc(ac, n, mode) ==
    IF n \in DOMAIN ac THEN [ac EXCEPT ![n] = [@ EXCEPT !.AcMode = <<mode>>]]
    ELSE ac

\* one entry of the call log
Call(op, id, arg) == [op |-> op, id |-> id, arg |-> arg]

----------------------------------------------------------------------------
(* The manual-climate controller *)

\* what one call of async_adjust_fan_speed did: ret names the return taken,
\* exc the exception raised ("" for none), call the percentage passed to
\* SetGroupToPercentage (<< >> when the driver was not called)
Outcome(e, ret, exc, call) ==
    [group |-> e._group_number, ret |-> ret, exc |-> exc, call |-> call]

\* ManualNonITCClimate.async_adjust_fan_speed on entity e
async_adjust_fan_speed(e, grp, ac, states, fp_low, driver_fails) ==
    LET group_obj == grp[e._group_number]
        belongs_to == group_obj.BelongsToAc
    IN  IF getattr(group_obj.PowerState, "Off") = "Off"
        THEN Outcome(e, "group_off", "", << >>)
        ELSE IF belongs_to = << >>
        THEN Outcome(e, "no_ac", "", << >>)
        ELSE IF belongs_to[1] \notin DOMAIN ac
        THEN Outcome(e, "raised", "IndexError", << >>)
        ELSE LET ac_unit == ac[belongs_to[1]]
                 current_temp == current_temperature(e, states)
             IN  IF getattr(ac_unit.PowerState, "Off") = "Off"
                 THEN Outcome(e, "ac_off", "", << >>)
                 ELSE IF current_temp = << >>
                 THEN Outcome(e, "no_temp", "", << >>)
                 ELSE LET desired == _calculate_open_percentage(
                                         group_obj, current_temp[1], e._target_temp,
                                         getattr(ac_unit.AcMode, "Fan"), fp_low)
                      IN  IF desired.exc # ""
                          THEN Outcome(e, "raised", desired.exc, << >>)
                          ELSE IF driver_fails
                          THEN Outcome(e, "raised", "DriverError", <<round5(desired.value)>>)
                          ELSE Outcome(e, "adjusted", "", <<round5(desired.value)>>)

\* the loop `for entity in manual_climates: await entity.async_adjust_fan_speed()`
\* from position i on.  catch: the loop body is wrapped in try/except Exception.
\* inp holds the tick's inputs: the sensor states, and the positions at which
\* the float result falls low (lows) and at which the driver raises (fails).
\* acc = [groups, outs, calls, exc] is what the loop did so far.
RECURSIVE adjust_from(_, _, _, _, _, _)
adjust_from(i, ents, ac, inp, catch, acc) ==
    IF i > Len(ents) THEN acc
    ELSE LET e == ents[i]
             o == async_adjust_fan_speed(e, acc.groups, ac, inp.states,
                                         i \in inp.lows, i \in inp.fails)
             called == o.call # << >>
             next == [groups |-> IF called /\ o.exc = ""
                                 THEN SetGroupToPercentage(acc.groups, o.group, o.call[1])
                                 ELSE acc.groups,
                      outs   |-> Append(acc.outs, o),
                      calls  |-> IF called
                                 THEN Append(acc.calls,
                                        Call("SetGroupToPercentage", o.group, o.call[1]))
                                 ELSE acc.calls,
                      exc    |-> IF o.exc # "" /\ ~catch THEN o.exc ELSE ""]
         IN  IF next.exc # "" THEN next
             ELSE adjust_from(i + 1, ents, ac, inp, catch, next)

\* the sensors bound to the entities of the list
BoundSensors(ents) ==
    {ents[i]._sensor_entity_id[1] : i \in {j \in 1..Len(ents) : ents[j]._sensor_entity_id # << >>}}

\* one firing of the 1-minute interval handler; pkg names the package
Tick(pkg, catch, SensorDomain, MayFail) ==
    \E states \in [BoundSensors(manual_climates) -> SensorDomain],
       lows \in SUBSET (1..Len(manual_climates)),
       fails \in SUBSET (IF MayFail THEN 1..Len(manual_climates) ELSE {}) :
        LET inp == [states |-> states, lows |-> lows, fails |-> fails]
            res == adjust_from(1, manual_climates, acs, inp, catch,
                               [groups |-> groups, outs |-> << >>, calls |-> << >>, exc |-> ""])
        IN  /\ groups' = res.groups
            /\ calls' = res.calls
            /\ last' = [op |-> "adjust_all_manual_climates", pkg |-> pkg,
                        states |-> states, fails |-> fails,
                        outs |-> res.outs, exc |-> res.exc]
            /\ UNCHANGED <<acs, Status, data, last_update_success, manual_climates>>
            /\ UNCHANGED runtime

\* custom_components/airtouch4/__init__.py: an exception leaves the loop
adjust_all_manual_climates(SensorDomain, MayFail) ==
    Tick("airtouch4", FALSE, SensorDomain, MayFail)

\* custom_components/airtouch4_advanced/__init__.py: each call is wrapped in
\* try/except Exception, which logs the error and goes on
adjust_all_manual_climates_advanced(SensorDomain, MayFail) ==
    Tick("airtouch4_advanced", TRUE, SensorDomain, MayFail)

\* async_set_temperature that logs the request and keeps the target
ManualNonITCClimate_async_set_temperature_ignored(i, new_temp) ==
    /\ i \in 1..Len(manual_climates)
    /\ calls' = << >>
    /\ last' = [op |-> "async_set_temperature", entity |-> "ManualNonITCClimate",
                pos |-> i, arg |-> new_temp]
    /\ UNCHANGED <<acs, groups, Status, data, last_update_success, manual_climates>>
    /\ UNCHANGED runtime

\* async_set_temperature that also sends the target to the zone as its
\* aperture
ManualNonITCClimate_async_set_temperature_sent(i, new_temp) ==
    /\ i \in 1..Len(manual_climates)
    /\ manual_climates' =
          IF new_temp = << >> THEN manual_climates
          ELSE [manual_climates EXCEPT ![i] = [@ EXCEPT !._target_temp = new_temp[1]]]
    /\ groups' = SetGroupToPercentage(groups, manual_climates[i]._group_number, MIN_FAN_SPEED)
    /\ calls' = <<Call("SetGroupToPercentage", manual_climates[i]._group_number,
                       MIN_FAN_SPEED)>>
    /\ last' = [op |-> "async_set_temperature", entity |-> "ManualNonITCClimate",
                pos |-> i, arg |-> new_temp]
    /\ UNCHANGED <<acs, Status, data, last_update_success>>
    /\ UNCHANGED runtime

\* ManualNonITCClimate.async_set_temperature(temperature=new_temp) on the
\* entity at position i; new_temp = << >> is a call without a temperature
ManualNonITCClimate_async_set_temperature(i, new_temp) ==
    /\ i \in 1..Len(manual_climates)
    /\ manual_climates' =
          IF new_temp = << >> THEN manual_climates
          ELSE [manual_climates EXCEPT ![i] = [@ EXCEPT !._target_temp = new_temp[1]]]
    /\ calls' = << >>
    /\ last' = [op |-> "async_set_temperature", entity |-> "ManualNonITCClimate",
                pos |-> i, arg |-> new_temp]
    /\ UNCHANGED <<acs, groups, Status, data, last_update_success>>
    /\ UNCHANGED runtime

----------------------------------------------------------------------------
(* The coordinator *)

\* the operating modes and power states the device reports
DEVICE_MODES == {"Heat", "Cool", "AutoHeat", "AutoCool", "Auto", "Dry", "Fan"}

\* _async_update_data, lines 46-59: the dictionary built for one unit
ac_entry(n, ac) ==
    [ac_number   |-> n,
     power_state |-> getattr(ac.PowerState, "Unknown"),
     ac_mode     |-> getattr(ac.AcMode, "Unknown"),
     fan_speed   |-> getattr(attribute(ac, "AcFanSpeed"), "Auto")]

\* _async_update_data, lines 61-73: the dictionary built for one zone
group_entry(g, group) ==
    [group_number   |-> g,
     power_state    |-> getattr(group.PowerState, "Unknown"),
     open_percent   |-> getattr(group.OpenPercentage, 0),
     control_method |-> getattr(group.ControlMethod, "Unknown")]

\* _async_update_data, lines 37-82: the value returned by a successful poll
build_data(ac_list, group_list) ==
    [acs    |-> [n \in DOMAIN ac_list |-> ac_entry(n, ac_list[n])],
     groups |-> [g \in DOMAIN group_list |-> group_entry(g, group_list[g])]]

\* const.py: the setup modes of the config flow
MODE_DEFAULT == "default"
MODE_NONITC_FAN == "nonitc_fan"
MODE_NONITC_CLIMATE == "nonitc_climate"

\* a config entry of package pkg: entry.data["setup_mode"],
\* entry.data["nonitc_sensors"] (zone number -> sensor entity id) and the
\* entry's state
ConfigEntry(pkg, setup_mode, nonitc_sensors, state) ==
    [entry_id |-> "entry_1", pkg |-> pkg, setup_mode |-> setup_mode,
     nonitc_sensors |-> nonitc_sensors, options |-> << >>, state |-> state]

\* a loaded entry in manual-climate mode, both tick handlers registered, no
\* handler suspended; the AirtouchAC entities are left out
Running ==
    /\ entry = ConfigEntry("airtouch4_advanced", MODE_NONITC_CLIMATE,
                           [g \in {0} |-> "sensor.zone_0"], "LOADED")
    /\ intervals = <<"airtouch4", "airtouch4_advanced">>
    /\ in_flight = {}
    /\ ac_entities = << >>
    /\ flow = NoFlow

\* ManualNonITCClimate.__init__
ManualNonITCClimate(group_number, sensor_entity_id) ==
    [_group_number    |-> group_number,
     _sensor_entity_id |-> sensor_entity_id,
     _target_temp     |-> DEFAULT_TARGET_TEMP]

\* the sensor entity bound to a zone
SensorOf(g) == IF g = 0 THEN "sensor.zone_0" ELSE "sensor.zone_1"

----------------------------------------------------------------------------
(* The zone entities: operating state and the set-mode command.  An        *)
(* entity's _unit is the driver's own zone object, so it reads groups.     *)

\* homeassistant HVACMode
HVAC_MODES == {"off", "heat", "cool", "heat_cool", "auto", "dry", "fan_only"}

\* the keys of HA_STATE_TO_AT
HA_STATE_TO_AT_KEYS == {"heat", "cool", "auto", "dry", "fan_only", "off"}

\* custom_components/airtouch4/climate.py, AirtouchGroup.hvac_mode
AirtouchGroup_hvac_mode(unit) ==
    IF getattr(unit.PowerState, "Off") = "Off" THEN "off" ELSE "fan_only"

\* custom_components/airtouch4/climate.py, ManualNonITCClimate.hvac_mode
ManualNonITCClimate_hvac_mode(group_obj) ==
    IF getattr(group_obj.PowerState, "Off") = "Off" THEN "off" ELSE "fan_only"

\* airtouch4/climate.py, AirtouchGroup.hvac_mode: "None" is Python's None
airtouch4_AirtouchGroup_hvac_mode(unit) ==
    IF ~hasattr(unit.PowerState) THEN "None"
    ELSE IF unit.PowerState[1] = "Off" THEN "off" ELSE "fan_only"

\* what a command did: the driver state it left, the calls it made, the
\* exception it raised ("" for none)
Done(ac, grp, log, exc) == [acs |-> ac, groups |-> grp, calls |-> log, exc |-> exc]

RefreshRequest == Call("async_request_refresh", 0, 0)

\* custom_components/airtouch4/climate.py, AirtouchGroup.async_turn_off
AirtouchGroup_async_turn_off(ac, grp, g) ==
    Done(ac, SetGroupPower(grp, g, "Off"),
         <<Call("TurnGroupOff", g, 0), RefreshRequest>>, "")

\* AirtouchGroup.async_turn_on without the command for the owning unit
AirtouchGroup_async_turn_on_zone_only(ac, grp, g) ==
    Done(ac, SetGroupPower(grp, g, "On"), <<Call("TurnGroupOn", g, 0), RefreshRequest>>, "")

\* custom_components/airtouch4/climate.py, AirtouchGroup.async_turn_on
AirtouchGroup_async_turn_on(ac, grp, g) ==
    LET belongs_to == getattr(grp[g].BelongsToAc, 0)
    IN  Done(SetAcPower(ac, belongs_to, "On"), SetGroupPower(grp, g, "On"),
             <<Call("TurnGroupOn", g, 0), Call("TurnAcOn", belongs_to, 0), RefreshRequest>>,
             "")

\* custom_components/airtouch4/climate.py, AirtouchGroup.async_set_hvac_mode
AirtouchGroup_async_set_hvac_mode(ac, grp, g, hvac_mode) ==
    IF hvac_mode = "off" THEN AirtouchGroup_async_turn_off(ac, grp, g)
    ELSE IF AirtouchGroup_hvac_mode(grp[g]) = "off"
    THEN AirtouchGroup_async_turn_on(ac, grp, g)
    ELSE Done(ac, grp, << >>, "")

\* custom_components/airtouch4/climate.py, ManualNonITCClimate.async_set_hvac_mode
ManualNonITCClimate_async_set_hvac_mode(ac, grp, g, hvac_mode) ==
    IF hvac_mode = "off"
    THEN Done(ac, SetGroupPower(grp, g, "Off"), <<Call("TurnGroupOff", g, 0)>>, "")
    ELSE Done(ac, SetGroupPower(grp, g, "On"), <<Call("TurnGroupOn", g, 0)>>, "")

\* airtouch4/climate.py, AirtouchGroup.async_turn_off
airtouch4_AirtouchGroup_async_turn_off(ac, grp, g) ==
    Done(ac, SetGroupPower(grp, g, "Off"),
         <<Call("TurnGroupOff", g, 0), RefreshRequest>>, "")

\* airtouch4/climate.py, AirtouchGroup.async_turn_on
airtouch4_AirtouchGroup_async_turn_on(ac, grp, g) ==
    IF ~hasattr(grp[g].BelongsToAc)
    THEN Done(ac, SetGroupPower(grp, g, "On"), <<Call("TurnGroupOn", g, 0)>>,
              "AttributeError")
    ELSE LET belongs_to == grp[g].BelongsToAc[1]
         IN  Done(SetAcPower(ac, belongs_to, "On"), SetGroupPower(grp, g, "On"),
                  <<Call("TurnGroupOn", g, 0), Call("TurnAcOn", belongs_to, 0),
                    RefreshRequest>>, "")

\* airtouch4/climate.py, AirtouchGroup.async_set_hvac_mode
airtouch4_AirtouchGroup_async_set_hvac_mode(ac, grp, g, hvac_mode) ==
    IF hvac_mode \notin HA_STATE_TO_AT_KEYS THEN Done(ac, grp, << >>, "ValueError")
    ELSE IF hvac_mode = "off" THEN airtouch4_AirtouchGroup_async_turn_off(ac, grp, g)
    ELSE IF airtouch4_AirtouchGroup_hvac_mode(grp[g]) = "off"
    THEN airtouch4_AirtouchGroup_async_turn_on(ac, grp, g)
    ELSE Done(ac, grp, << >>, "")

\* the keys of AT_TO_HA_STATE
AT_TO_HA_STATE_KEYS == {"Heat", "Cool", "AutoHeat", "AutoCool", "Auto", "Dry", "Fan"}

\* AT_TO_HA_STATE with AutoHeat shown as heat and AutoCool as cool
AT_TO_HA_STATE_auto_by_direction(raw_mode) ==
    CASE raw_mode = "Heat" -> "heat"
      [] raw_mode = "Cool" -> "cool"
      [] raw_mode = "AutoHeat" -> "heat"
      [] raw_mode = "AutoCool" -> "cool"
      [] raw_mode = "Auto" -> "auto"
      [] raw_mode = "Dry" -> "dry"
      [] raw_mode = "Fan" -> "fan_only"

\* AT_TO_HA_STATE[raw_mode], for raw_mode a key of the table
AT_TO_HA_STATE(raw_mode) ==
    CASE raw_mode = "Heat" -> "heat"
      [] raw_mode = "Cool" -> "cool"
      [] raw_mode = "AutoHeat" -> "auto"
      [] raw_mode = "AutoCool" -> "auto"
      [] raw_mode = "Auto" -> "auto"
      [] raw_mode = "Dry" -> "dry"
      [] raw_mode = "Fan" -> "fan_only"

\* AT_TO_HA_STATE.get(raw_mode, default)
AT_TO_HA_STATE_get(raw_mode, default) ==
    IF raw_mode \in AT_TO_HA_STATE_KEYS THEN AT_TO_HA_STATE(raw_mode) ELSE default

\* custom_components/airtouch4/climate.py, AirtouchAC.hvac_mode
AirtouchAC_hvac_mode(unit) ==
    IF getattr(unit.PowerState, "Off") = "Off" THEN "off"
    ELSE AT_TO_HA_STATE_get(getattr(unit.AcMode, "Fan"), "fan_only")

\* airtouch4/climate.py, AirtouchAC.hvac_mode, self._unit an AirTouchAc
airtouch4_AirtouchAC_hvac_mode(unit) ==
    IF getattr(unit.PowerState, "Off") = "Off" THEN Return("off")
    ELSE IF ~hasattr(unit.AcMode) THEN Raise("AttributeError")
    ELSE Return(AT_TO_HA_STATE_get(unit.AcMode[1], "off"))

\* HA_STATE_TO_AT with the device mode Auto sent for dry
HA_STATE_TO_AT_dry_as_auto(hvac_mode) ==
    CASE hvac_mode = "heat" -> "Heat"
      [] hvac_mode = "cool" -> "Cool"
      [] hvac_mode = "auto" -> "Auto"
      [] hvac_mode = "dry" -> "Auto"
      [] hvac_mode = "fan_only" -> "Fan"
      [] hvac_mode = "off" -> "Off"

\* HA_STATE_TO_AT[hvac_mode], for hvac_mode a key of the table
HA_STATE_TO_AT(hvac_mode) ==
    CASE hvac_mode = "heat" -> "Heat"
      [] hvac_mode = "cool" -> "Cool"
      [] hvac_mode = "auto" -> "Auto"
      [] hvac_mode = "dry" -> "Dry"
      [] hvac_mode = "fan_only" -> "Fan"
      [] hvac_mode = "off" -> "Off"

\* the log entry of SetCoolingModeForAc(n, mode)
ModeCall(n, mode) == [op |-> "SetCoolingModeForAc", id |-> n, arg |-> 0, mode |-> mode]

\* custom_components/airtouch4/climate.py, AirtouchAC.async_turn_on
AirtouchAC_async_turn_on(ac, grp, n) ==
    Done(SetAcPower(ac, n, "On"), grp, <<Call("TurnAcOn", n, 0)>>, "")

\* custom_components/airtouch4/climate.py, AirtouchAC.async_turn_off
AirtouchAC_async_turn_off(ac, grp, n) ==
    Done(SetAcPower(ac, n, "Off"), grp, <<Call("TurnAcOff", n, 0)>>, "")

\* AirtouchAC.async_set_hvac_mode with the two driver calls in the other order
AirtouchAC_async_set_hvac_mode_power_first(ac, grp, n, hvac_mode) ==
    IF hvac_mode \notin HA_STATE_TO_AT_KEYS THEN Done(ac, grp, << >>, "ValueError")
    ELSE IF hvac_mode = "off" THEN AirtouchAC_async_turn_off(ac, grp, n)
    ELSE LET raw_mode == HA_STATE_TO_AT(hvac_mode)
         IN  Done(SetCoolingModeForAc(SetAcPower(ac, n, "On"), n, raw_mode), grp,
                  <<Call("TurnAcOn", n, 0), ModeCall(n, raw_mode)>>, "")

\* custom_components/airtouch4/climate.py, AirtouchAC.async_set_hvac_mode
AirtouchAC_async_set_hvac_mode(ac, grp, n, hvac_mode) ==
    IF hvac_mode \notin HA_STATE_TO_AT_KEYS THEN Done(ac, grp, << >>, "ValueError")
    ELSE IF hvac_mode = "off" THEN AirtouchAC_async_turn_off(ac, grp, n)
    ELSE LET raw_mode == HA_STATE_TO_AT(hvac_mode)
         IN  Done(SetAcPower(SetCoolingModeForAc(ac, n, raw_mode), n, "On"), grp,
                  <<ModeCall(n, raw_mode), Call("TurnAcOn", n, 0)>>, "")

\* airtouch4/climate.py, AirtouchAC.async_turn_on, self._unit an AirTouchAc
airtouch4_AirtouchAC_async_turn_on(ac, grp, n) ==
    Done(SetAcPower(ac, n, "On"), grp, <<Call("TurnAcOn", n, 0), RefreshRequest>>, "")

\* airtouch4/climate.py, AirtouchAC.async_turn_off, self._unit an AirTouchAc
airtouch4_AirtouchAC_async_turn_off(ac, grp, n) ==
    Done(SetAcPower(ac, n, "Off"), grp, <<Call("TurnAcOff", n, 0), RefreshRequest>>, "")

\* airtouch4/climate.py, AirtouchAC.async_set_hvac_mode, self._unit an AirTouchAc
airtouch4_AirtouchAC_async_set_hvac_mode(ac, grp, n, hvac_mode) ==
    IF hvac_mode = "off" THEN airtouch4_AirtouchAC_async_turn_off(ac, grp, n)
    ELSE IF hvac_mode \notin HA_STATE_TO_AT_KEYS THEN Done(ac, grp, << >>, "ValueError")
    ELSE LET raw_mode == HA_STATE_TO_AT(hvac_mode)
             on == airtouch4_AirtouchAC_async_turn_on(SetCoolingModeForAc(ac, n, raw_mode), grp, n)
         IN  Done(on.acs, on.groups, <<ModeCall(n, raw_mode)>> \o on.calls, on.exc)

\* the zones exposed as a zone climate and as a manual climate
ThermostaticZones == {g \in DOMAIN groups : groups[g].ControlMethod = <<"TemperatureControl">>}

ManualZones == {manual_climates[i]._group_number : i \in 1..Len(manual_climates)}

\* a set-mode service call on a zone entity of class cls
SetHvacMode(cls, g, hvac_mode, res) ==
    /\ acs' = res.acs
    /\ groups' = res.groups
    /\ calls' = res.calls
    /\ last' = [op |-> "async_set_hvac_mode", entity |-> cls, group |-> g,
                arg |-> hvac_mode, exc |-> res.exc]
    /\ UNCHANGED <<Status, data, last_update_success, manual_climates>>
    /\ UNCHANGED runtime

SetHvacModeGroup(g, hvac_mode) ==
    /\ g \in ThermostaticZones
    /\ SetHvacMode("AirtouchGroup", g, hvac_mode,
                   AirtouchGroup_async_set_hvac_mode(acs, groups, g, hvac_mode))

SetHvacModeGroupAirtouch4(g, hvac_mode) ==
    /\ g \in ThermostaticZones
    /\ SetHvacMode("airtouch4.AirtouchGroup", g, hvac_mode,
                   airtouch4_AirtouchGroup_async_set_hvac_mode(acs, groups, g, hvac_mode))

\* a turn_on / turn_off service call on a zone entity of class cls
TurnZone(op, cls, g, res) ==
    /\ acs' = res.acs
    /\ groups' = res.groups
    /\ calls' = res.calls
    /\ last' = [op |-> op, entity |-> cls, group |-> g, arg |-> "", exc |-> res.exc]
    /\ UNCHANGED <<Status, data, last_update_success, manual_climates>>
    /\ UNCHANGED runtime

TurnOnGroup(g) ==
    /\ g \in ThermostaticZones
    /\ TurnZone("async_turn_on", "AirtouchGroup", g, AirtouchGroup_async_turn_on(acs, groups, g))

TurnOffGroup(g) ==
    /\ g \in ThermostaticZones
    /\ TurnZone("async_turn_off", "AirtouchGroup", g, AirtouchGroup_async_turn_off(acs, groups, g))

TurnOnGroupAirtouch4(g) ==
    /\ g \in ThermostaticZones
    /\ TurnZone("async_turn_on", "airtouch4.AirtouchGroup", g,
                airtouch4_AirtouchGroup_async_turn_on(acs, groups, g))

TurnOffGroupAirtouch4(g) ==
    /\ g \in ThermostaticZones
    /\ TurnZone("async_turn_off", "airtouch4.AirtouchGroup", g,
                airtouch4_AirtouchGroup_async_turn_off(acs, groups, g))

SetHvacModeManual(g, hvac_mode) ==
    /\ g \in ManualZones
    /\ SetHvacMode("ManualNonITCClimate", g, hvac_mode,
                   ManualNonITCClimate_async_set_hvac_mode(acs, groups, g, hvac_mode))

\* custom_components/airtouch4/climate.py, ManualNonITCClimate.async_turn_on
ManualNonITCClimate_async_turn_on(ac, grp, g) ==
    Done(ac, SetGroupPower(grp, g, "On"), <<Call("TurnGroupOn", g, 0)>>, "")

\* custom_components/airtouch4/climate.py, ManualNonITCClimate.async_turn_off
ManualNonITCClimate_async_turn_off(ac, grp, g) ==
    Done(ac, SetGroupPower(grp, g, "Off"), <<Call("TurnGroupOff", g, 0)>>, "")

TurnOnManual(g) ==
    /\ g \in ManualZones
    /\ TurnZone("async_turn_on", "ManualNonITCClimate", g,
                ManualNonITCClimate_async_turn_on(acs, groups, g))

TurnOffManual(g) ==
    /\ g \in ManualZones
    /\ TurnZone("async_turn_off", "ManualNonITCClimate", g,
                ManualNonITCClimate_async_turn_off(acs, groups, g))

\* ManualNonITCClimate._handle_coordinator_update on the entity at position
\* i: the entity keeps its fields
HandleCoordinatorUpdateManual(i) ==
    /\ i \in 1..Len(manual_climates)
    /\ last_update_success
    /\ calls' = << >>
    /\ last' = [op |-> "_handle_coordinator_update", entity |-> "ManualNonITCClimate",
                pos |-> i, exc |-> ""]
    /\ UNCHANGED <<acs, groups, Status, data, last_update_success, manual_climates>>
    /\ UNCHANGED runtime

\* a service call on the whole-unit entity of class cls for unit n
UnitCommand(op, cls, n, arg, res) ==
    /\ acs' = res.acs
    /\ groups' = res.groups
    /\ calls' = res.calls
    /\ last' = [op |-> op, entity |-> cls, unit |-> n, arg |-> arg, exc |-> res.exc]
    /\ UNCHANGED <<Status, data, last_update_success, manual_climates>>
    /\ UNCHANGED runtime

SetHvacModeAc(n, hvac_mode) ==
    UnitCommand("async_set_hvac_mode", "AirtouchAC", n, hvac_mode,
                AirtouchAC_async_set_hvac_mode(acs, groups, n, hvac_mode))

SetHvacModeAcAirtouch4(n, hvac_mode) ==
    UnitCommand("async_set_hvac_mode", "airtouch4.AirtouchAC", n, hvac_mode,
                airtouch4_AirtouchAC_async_set_hvac_mode(acs, groups, n, hvac_mode))

TurnOnAc(n) ==
    UnitCommand("async_turn_on", "AirtouchAC", n, "", AirtouchAC_async_turn_on(acs, groups, n))

TurnOffAc(n) ==
    UnitCommand("async_turn_off", "AirtouchAC", n, "", AirtouchAC_async_turn_off(acs, groups, n))

TurnOnAcAirtouch4(n) ==
    UnitCommand("async_turn_on", "airtouch4.AirtouchAC", n, "",
                airtouch4_AirtouchAC_async_turn_on(acs, groups, n))

TurnOffAcAirtouch4(n) ==
    UnitCommand("async_turn_off", "airtouch4.AirtouchAC", n, "",
                airtouch4_AirtouchAC_async_turn_off(acs, groups, n))

----------------------------------------------------------------------------
(* The poll *)

\* what the device may report at a poll
PolledAcPower == {<<"On">>, <<"Off">>}

PolledAcModes == {<<"Cool">>, <<"Fan">>}

PolledGroupPower == {<<"On">>, <<"Off">>, << >>}

\* airtouch.UpdateInfo() with a healthy link: the driver's objects after it.
\* Between two polls the device changes in at most one attribute.
UpdateInfo(ac, grp) ==
    {[acs |-> ac, groups |-> grp]}
    \cup {[acs |-> [ac EXCEPT ![n] = [@ EXCEPT !.PowerState = p]], groups |-> grp] :
             n \in DOMAIN ac, p \in PolledAcPower}
    \cup {[acs |-> [ac EXCEPT ![n] = [@ EXCEPT !.AcMode = m]], groups |-> grp] :
             n \in DOMAIN ac, m \in PolledAcModes}
    \cup {[acs |-> ac, groups |-> [grp EXCEPT ![g] = [@ EXCEPT !.PowerState = p]]] :
             g \in DOMAIN grp, p \in PolledGroupPower}

\* update_result that raises UpdateFailed whatever the status
update_result_never_commits(status, ac_list, group_list, old) ==
    [exc |-> "UpdateFailed", data |-> old]

\* update_result without the test of the status
update_result_unchecked(status, ac_list, group_list, old) ==
    [exc |-> "", data |-> build_data(ac_list, group_list)]

\* _async_update_data once UpdateInfo has returned: UpdateFailed when the
\* status is not OK, else the dictionaries built from the driver's objects.
\* old is coordinator.data, which the coordinator keeps when the update fails.
update_result(status, ac_list, group_list, old) ==
    IF status # "OK" THEN [exc |-> "UpdateFailed", data |-> old]
    ELSE [exc |-> "", data |-> build_data(ac_list, group_list)]

\* AirtouchDataUpdateCoordinator._async_update_data, one refresh; devs is
\* what the driver's objects may be after UpdateInfo() on a healthy link
_async_update_data_from(devs) ==
    \E status \in {"OK", "CONNECTION_LOST"} :
      \E dev \in (IF status = "OK" THEN devs
                  ELSE {[acs |-> acs, groups |-> groups]}) :
        LET res == update_result(status, dev.acs, dev.groups, data)
        IN  /\ Status' = status
            /\ acs' = dev.acs
            /\ groups' = dev.groups
            /\ data' = res.data
            /\ last_update_success' = (res.exc = "")
            /\ calls' = << >>
            /\ last' = [op |-> "_async_update_data", exc |-> res.exc,
                        recovered |-> ~last_update_success /\ res.exc = ""]
            /\ UNCHANGED manual_climates
            /\ UNCHANGED runtime

\* one refresh over a device whose units and zones stay the same
_async_update_data == _async_update_data_from(UpdateInfo(acs, groups))

----------------------------------------------------------------------------
(* The whole integration: one unit, a percentage-actuated zone 0 exposed   *)
(* as a manual climate and a thermostatic zone 1 exposed as a zone climate *)

Zone(power, percent, method) ==
    [PowerState |-> power, OpenPercentage |-> percent, BelongsToAc |-> <<0>>,
     ControlMethod |-> <<method>>]

\* what the sensor may hold when a tick reads it
SensorStates ==
    {NoState, TextState("unknown"), TextState("unavailable"), TextState("abc"),
     NumberState(300)}

\* the modes a set-mode service call is made with
RequestedModes == {"off", "fan_only", "heat", "heat_cool"}

Init ==
    /\ acs = [n \in {0} |-> [PowerState |-> <<"On">>, AcMode |-> <<"Cool">>]]
    /\ groups = [g \in {0, 1} |->
                    IF g = 0 THEN Zone(<<"On">>, <<55>>, "PercentageControl")
                    ELSE Zone(<<"On">>, <<100>>, "TemperatureControl")]
    /\ Status = "OK"
    /\ data = build_data(acs, groups)
    /\ last_update_success = TRUE
    /\ manual_climates = <<ManualNonITCClimate(0, <<SensorOf(0)>>)>>
    /\ calls = << >>
    /\ last = [op |-> "async_setup_entry"]
    /\ Running

Next ==
    \/ _async_update_data
    \/ adjust_all_manual_climates(SensorStates, TRUE)
    \/ adjust_all_manual_climates_advanced(SensorStates, TRUE)
    \/ \E g \in DOMAIN groups, m \in RequestedModes : SetHvacModeGroup(g, m)
    \/ \E g \in DOMAIN groups, m \in RequestedModes : SetHvacModeGroupAirtouch4(g, m)
    \/ \E g \in DOMAIN groups, m \in RequestedModes : SetHvacModeManual(g, m)
    \/ \E g \in DOMAIN groups : TurnOnGroup(g)
    \/ \E g \in DOMAIN groups : TurnOffGroup(g)
    \/ \E g \in DOMAIN groups : TurnOnGroupAirtouch4(g)
    \/ \E g \in DOMAIN groups : TurnOffGroupAirtouch4(g)

Spec == Init /\ [][Next]_vars

----------------------------------------------------------------------------
(* The whole-unit entity: one unit whose zone 0 is thermostatic *)

InitUnit ==
    /\ \E power \in PolledAcPower, mode \in {<<m>> : m \in DEVICE_MODES} :
          acs = [n \in {0} |-> [PowerState |-> power, AcMode |-> mode]]
    /\ groups = [g \in {0} |-> Zone(<<"On">>, <<100>>, "TemperatureControl")]
    /\ Status = "OK"
    /\ data = build_data(acs, groups)
    /\ last_update_success = TRUE
    /\ manual_climates = << >>
    /\ calls = << >>
    /\ last = [op |-> "async_setup_entry"]
    /\ Running

NextUnit ==
    \/ _async_update_data
    \/ \E n \in DOMAIN acs, m \in HVAC_MODES : SetHvacModeAc(n, m)
    \/ \E n \in DOMAIN acs, m \in HVAC_MODES : SetHvacModeAcAirtouch4(n, m)
    \/ \E n \in DOMAIN acs : TurnOnAc(n)
    \/ \E n \in DOMAIN acs : TurnOffAc(n)
    \/ \E n \in DOMAIN acs : TurnOnAcAirtouch4(n)
    \/ \E n \in DOMAIN acs : TurnOffAcAirtouch4(n)

SpecUnit == InitUnit /\ [][NextUnit]_vars

----------------------------------------------------------------------------
(* The controller over two manual climates, each with its own sensor *)

CtlSensorStates == {TextState("unavailable"), NumberState(180), NumberState(300)}

InitCtl ==
    /\ \E mode \in {"Cool", "Fan"} :
          acs = [n \in {0} |-> [PowerState |-> <<"On">>, AcMode |-> <<mode>>]]
    /\ groups = [g \in {0, 1} |-> Zone(<<"On">>, <<55>>, "PercentageControl")]
    /\ Status = "OK"
    /\ data = build_data(acs, groups)
    /\ last_update_success = TRUE
    /\ manual_climates = <<ManualNonITCClimate(0, <<SensorOf(0)>>),
                           ManualNonITCClimate(1, <<SensorOf(1)>>)>>
    /\ calls = << >>
    /\ last = [op |-> "async_setup_entry"]
    /\ Running

NextCtl ==
    \/ adjust_all_manual_climates(CtlSensorStates, TRUE)
    \/ adjust_all_manual_climates_advanced(CtlSensorStates, TRUE)
    \/ \E g \in DOMAIN groups, m \in {"off", "fan_only"} : SetHvacModeManual(g, m)

SpecCtl == InitCtl /\ [][NextCtl]_vars

----------------------------------------------------------------------------
(* Setup, unload and reload of the config entry *)

\* sensor_map.get(str(group_number)): << >> is None
sensor_map_get(sensor_map, g) ==
    IF g \in DOMAIN sensor_map THEN <<sensor_map[g]>> ELSE << >>

\* the zone numbers of grp in the order of info["groups"]
RECURSIVE group_numbers(_)
group_numbers(zs) ==
    IF zs = {} THEN << >>
    ELSE LET g == CHOOSE z \in zs : \A y \in zs : z <= y
         IN  <<g>> \o group_numbers(zs \ {g})

\* climate.py async_setup_entry: the ManualNonITCClimate entities it creates
\* and appends to manual_climates
created_manual_climates(e, grp) ==
    LET gs == group_numbers(DOMAIN grp)
        manual == SelectSeq(gs, LAMBDA g :
                      /\ getattr(grp[g].ControlMethod, "Unknown") # "TemperatureControl"
                      /\ e.setup_mode = MODE_NONITC_CLIMATE)
    IN  [i \in DOMAIN manual |->
            ManualNonITCClimate(manual[i], sensor_map_get(e.nonitc_sensors, manual[i]))]

\* an entity a platform adds for a zone
ZoneEntity(cls, g) == [cls |-> cls, group |-> g]

\* custom_components/airtouch4/climate.py async_setup_entry: the entities it
\* adds for the zones, in the order of info["groups"]
climate_zone_entities(e, grp) ==
    LET gs == group_numbers(DOMAIN grp)
        kept == SelectSeq(gs, LAMBDA g :
                    \/ getattr(grp[g].ControlMethod, "Unknown") = "TemperatureControl"
                    \/ e.setup_mode # MODE_NONITC_FAN)
    IN  [i \in DOMAIN kept |->
            IF getattr(grp[kept[i]].ControlMethod, "Unknown") = "TemperatureControl"
            THEN ZoneEntity("AirtouchGroup", kept[i])
            ELSE IF e.setup_mode = MODE_NONITC_CLIMATE
            THEN ZoneEntity("ManualNonITCClimate", kept[i])
            ELSE ZoneEntity("AirtouchGroup", kept[i])]

\* custom_components/airtouch4_advanced/fan.py async_setup_entry; info is
\* coordinator.data
fan_entities(e, info) ==
    IF e.setup_mode # MODE_NONITC_FAN THEN << >>
    ELSE LET gs == group_numbers(DOMAIN info.groups)
             fans == SelectSeq(gs, LAMBDA g :
                         info.groups[g].control_method = "PercentageControl")
         IN  [i \in DOMAIN fans |-> ZoneEntity("AirtouchFan", fans[i])]

\* airtouch4/climate.py async_setup_entry: the entities it adds for the zones
airtouch4_climate_zone_entities(e, grp) ==
    LET gs == group_numbers(DOMAIN grp)
        itc == SelectSeq(gs, LAMBDA g : grp[g].ControlMethod = <<"TemperatureControl">>)
    IN  [i \in DOMAIN itc |-> ZoneEntity("AirtouchGroup", itc[i])]

\* airtouch4/fan.py async_setup_entry
airtouch4_fan_entities(e, grp) ==
    LET gs == group_numbers(DOMAIN grp)
        fans == SelectSeq(gs, LAMBDA g : grp[g].ControlMethod = <<"PercentageControl">>)
    IN  [i \in DOMAIN fans |-> ZoneEntity("AirtouchFan", fans[i])]

\* getattr(climate, "entry_id", None): ManualNonITCClimate sets no entry_id
climate_entry_id(climate) == << >>

\* airtouch4_advanced async_unload_entry, lines 114-120: the list after the
\* entities of entry e were filtered out
filtered_manual_climates(reg, e) ==
    SelectSeq(reg, LAMBDA climate : climate_entry_id(climate) # <<e.entry_id>>)

\* the list with one occurrence of listener h removed (the cancel function
\* returned by async_track_time_interval)
RECURSIVE cancel_interval(_, _)
cancel_interval(listeners, h) ==
    IF listeners = << >> THEN << >>
    ELSE IF Head(listeners) = h THEN Tail(listeners)
    ELSE <<Head(listeners)>> \o cancel_interval(Tail(listeners), h)

\* the most listeners and entities the model lets accumulate
MaxIntervals == 3
MaxRegistry == 4

\* async_setup_entry raises ConfigEntryNotReady whenever the first refresh
\* fails, and not when no unit is discovered
ConfigEntryNotReady_refresh_only(status, ac_list) == status # "OK"

\* async_setup_entry raises ConfigEntryNotReady: the first refresh failed
\* (async_config_entry_first_refresh), or GetAcs() is empty
ConfigEntryNotReady(status, ac_list) == status # "OK" \/ DOMAIN ac_list = {}

\* async_setup_entry of the integration and of its climate platform; status
\* is the driver's status at the first refresh.  Nothing is stored, scheduled
\* or forwarded when ConfigEntryNotReady is raised.
setup_entry(status, reg, listeners) ==
    IF ConfigEntryNotReady(status, acs)
    THEN [exc |-> "ConfigEntryNotReady", state |-> "SETUP_RETRY", data |-> data,
          manual_climates |-> reg, intervals |-> listeners]
    ELSE [exc |-> "", state |-> "LOADED", data |-> build_data(acs, groups),
          manual_climates |-> reg \o created_manual_climates(entry, groups),
          intervals |-> Append(listeners, entry.pkg)]

async_setup_entry ==
    /\ entry.state \in {"NOT_LOADED", "SETUP_RETRY"}
    /\ Len(intervals) < MaxIntervals
    /\ Len(manual_climates) + Len(created_manual_climates(entry, groups)) <= MaxRegistry
    /\ \E status \in {"OK", "CONNECTION_LOST"} :
          LET res == setup_entry(status, manual_climates, intervals)
          IN  /\ Status' = status
              /\ data' = res.data
              /\ last_update_success' = (status = "OK")
              /\ intervals' = res.intervals
              /\ manual_climates' = res.manual_climates
              /\ entry' = [entry EXCEPT !.state = res.state]
              /\ calls' = << >>
              /\ last' = [op |-> "async_setup_entry", exc |-> res.exc]
    /\ UNCHANGED <<acs, groups, in_flight, ac_entities, flow>>

\* custom_components/airtouch4/__init__.py async_unload_entry
async_unload_entry ==
    /\ entry.pkg = "airtouch4"
    /\ entry.state = "LOADED"
    /\ entry' = [entry EXCEPT !.state = "NOT_LOADED"]
    /\ calls' = << >>
    /\ last' = [op |-> "async_unload_entry"]
    /\ UNCHANGED <<acs, groups, Status, data, last_update_success, manual_climates,
                   intervals, in_flight, ac_entities, flow>>

\* custom_components/airtouch4_advanced/__init__.py async_unload_entry
async_unload_entry_advanced ==
    /\ entry.pkg = "airtouch4_advanced"
    /\ entry.state = "LOADED"
    /\ intervals' = cancel_interval(intervals, entry.pkg)
    /\ manual_climates' = filtered_manual_climates(manual_climates, entry)
    /\ entry' = [entry EXCEPT !.state = "NOT_LOADED"]
    /\ calls' = << >>
    /\ last' = [op |-> "async_unload_entry"]
    /\ UNCHANGED <<acs, groups, Status, data, last_update_success, in_flight, ac_entities, flow>>

\* custom_components/airtouch4_advanced/__init__.py async_reload_entry:
\* async_unload_entry, then async_setup_entry
async_reload_entry ==
    LET kept == filtered_manual_climates(manual_climates, entry)
        made == created_manual_climates(entry, groups)
    IN  /\ entry.pkg = "airtouch4_advanced"
        /\ entry.state = "LOADED"
        /\ Len(kept) + Len(made) <= MaxRegistry
        /\ \E status \in {"OK", "CONNECTION_LOST"} :
              LET res == setup_entry(status, kept, cancel_interval(intervals, entry.pkg))
              IN  /\ Status' = status
                  /\ data' = res.data
                  /\ last_update_success' = (status = "OK")
                  /\ intervals' = res.intervals
                  /\ manual_climates' = res.manual_climates
                  /\ entry' = [entry EXCEPT !.state = res.state]
                  /\ calls' = << >>
                  /\ last' = [op |-> "async_reload_entry", exc |-> res.exc]
        /\ UNCHANGED <<acs, groups, in_flight, ac_entities, flow>>

\* the listener at position k of the registered ones fires
interval_fires(k, SensorDomain) ==
    /\ k \in DOMAIN intervals
    /\ Tick(intervals[k], intervals[k] = "airtouch4_advanced", SensorDomain, FALSE)

LifeSensorStates == {TextState("unavailable"), NumberState(300)}

InitLife ==
    /\ \E units \in {{}, {0}} :
          acs = [n \in units |-> [PowerState |-> <<"On">>, AcMode |-> <<"Cool">>]]
    /\ groups = [g \in {0, 1, 2} |->
                    IF g = 2 THEN Zone(<<"On">>, <<100>>, "TemperatureControl")
                    ELSE Zone(<<"On">>, <<55>>, "PercentageControl")]
    /\ Status = "OK"
    /\ data = build_data(acs, groups)
    /\ last_update_success = TRUE
    /\ manual_climates = << >>
    /\ calls = << >>
    /\ last = [op |-> "async_create_entry"]
    /\ \E pkg \in {"airtouch4", "airtouch4_advanced"},
          setup_mode \in {MODE_DEFAULT, MODE_NONITC_FAN, MODE_NONITC_CLIMATE},
          bound \in SUBSET {0, 1} :
            entry = ConfigEntry(pkg, setup_mode, [g \in bound |-> SensorOf(g)], "NOT_LOADED")
    /\ intervals = << >>
    /\ in_flight = {}
    /\ ac_entities = << >>
    /\ flow = NoFlow

NextLife ==
    \/ async_setup_entry
    \/ async_unload_entry
    \/ async_unload_entry_advanced
    \/ async_reload_entry
    \/ \E k \in 1..MaxIntervals : interval_fires(k, LifeSensorStates)

SpecLife == InitLife /\ [][NextLife]_vars

----------------------------------------------------------------------------
(* The handlers at the grain of their awaits.  A handler is a coroutine on *)
(* the event loop: it runs without interruption up to an await of a driver *)
(* call, is suspended while the driver talks to the device, and resumes    *)
(* when the call returns.  While it is suspended the loop runs whatever    *)
(* else is ready: a timer's poll or tick, a service call.                  *)

\* the effect of driver command c on the driver's objects when it returns
command_returns(c, ac, grp) ==
    CASE c.op = "TurnGroupOn" -> [acs |-> ac, groups |-> SetGroupPower(grp, c.id, "On")]
      [] c.op = "TurnGroupOff" -> [acs |-> ac, groups |-> SetGroupPower(grp, c.id, "Off")]
      [] c.op = "TurnAcOn" -> [acs |-> SetAcPower(ac, c.id, "On"), groups |-> grp]
      [] c.op = "TurnAcOff" -> [acs |-> SetAcPower(ac, c.id, "Off"), groups |-> grp]
      [] c.op = "SetGroupToPercentage" ->
            [acs |-> ac, groups |-> SetGroupToPercentage(grp, c.id, c.arg)]
      [] OTHER -> [acs |-> ac, groups |-> grp]

\* a suspended handler: the driver call it awaits and the calls it makes
\* after that one
Suspended(handler, pending) ==
    [handler |-> handler, awaits |-> Head(pending), then |-> Tail(pending)]

\* the most handlers the model lets be suspended at once
MaxInFlight == 2

\* a handler starts and runs up to its first driver call
start_handler(handler, pending) ==
    /\ pending # << >>
    /\ Cardinality(in_flight) < MaxInFlight
    /\ \A t \in in_flight : t.handler # handler
    /\ in_flight' = in_flight \cup {Suspended(handler, pending)}
    /\ calls' = <<Head(pending)>>
    /\ last' = [op |-> "await", handler |-> handler]
    /\ UNCHANGED <<acs, groups, Status, data, last_update_success, manual_climates,
                   entry, intervals, ac_entities, flow>>

\* the coordinator's refresh starts: _async_update_data awaits UpdateInfo()
poll_starts ==
    start_handler("_async_update_data", <<Call("UpdateInfo", 0, 0)>>)

\* a service call starts AirtouchGroup.async_turn_on / async_turn_off, or
\* ManualNonITCClimate.async_set_hvac_mode
turn_on_starts(g) ==
    /\ g \in ThermostaticZones
    /\ start_handler("AirtouchGroup.async_turn_on",
                     SelectSeq(AirtouchGroup_async_turn_on(acs, groups, g).calls,
                               LAMBDA c : c # RefreshRequest))

turn_off_starts(g) ==
    /\ g \in ThermostaticZones
    /\ start_handler("AirtouchGroup.async_turn_off",
                     SelectSeq(AirtouchGroup_async_turn_off(acs, groups, g).calls,
                               LAMBDA c : c # RefreshRequest))

set_hvac_mode_starts(g, hvac_mode) ==
    /\ g \in ManualZones
    /\ start_handler("ManualNonITCClimate.async_set_hvac_mode",
                     ManualNonITCClimate_async_set_hvac_mode(acs, groups, g, hvac_mode).calls)

\* the tick starts on a list of one entity: async_adjust_fan_speed runs up
\* to its SetGroupToPercentage, when it gets that far
tick_starts(SensorDomain) ==
    /\ Len(manual_climates) = 1
    /\ \E states \in [BoundSensors(manual_climates) -> SensorDomain] :
          LET o == async_adjust_fan_speed(manual_climates[1], groups, acs, states,
                                          FALSE, FALSE)
          IN  /\ o.call # << >>
              /\ start_handler("adjust_all_manual_climates",
                               <<Call("SetGroupToPercentage", o.group, o.call[1])>>)

\* the driver call of suspended handler t returns and t runs on, to its next
\* driver call or to its end
command_returns_to(t) ==
    /\ t \in in_flight
    /\ t.handler # "_async_update_data"
    /\ LET dev == command_returns(t.awaits, acs, groups)
       IN  /\ acs' = dev.acs
           /\ groups' = dev.groups
    /\ in_flight' = (in_flight \ {t})
                      \cup (IF t.then = << >> THEN {} ELSE {Suspended(t.handler, t.then)})
    /\ calls' = IF t.then = << >> THEN << >> ELSE <<Head(t.then)>>
    /\ last' = [op |-> "resume", handler |-> t.handler]
    /\ UNCHANGED <<Status, data, last_update_success, manual_climates, entry, intervals,
                   ac_entities, flow>>

\* UpdateInfo() returns to _async_update_data, which runs to its end
poll_returns ==
    \E t \in in_flight :
        /\ t.handler = "_async_update_data"
        /\ \E status \in {"OK", "CONNECTION_LOST"} :
              \E dev \in (IF status = "OK" THEN UpdateInfo(acs, groups)
                          ELSE {[acs |-> acs, groups |-> groups]}) :
                LET res == update_result(status, dev.acs, dev.groups, data)
                IN  /\ Status' = status
                    /\ acs' = dev.acs
                    /\ groups' = dev.groups
                    /\ data' = res.data
                    /\ last_update_success' = (res.exc = "")
                    /\ last' = [op |-> "_async_update_data", exc |-> res.exc,
                                recovered |-> ~last_update_success /\ res.exc = ""]
        /\ in_flight' = in_flight \ {t}
        /\ calls' = << >>
        /\ UNCHANGED <<manual_climates, entry, intervals, ac_entities, flow>>

NextAsync ==
    \/ poll_starts
    \/ poll_returns
    \/ \E g \in DOMAIN groups : turn_on_starts(g)
    \/ \E g \in DOMAIN groups : turn_off_starts(g)
    \/ \E g \in DOMAIN groups, m \in {"off", "fan_only"} : set_hvac_mode_starts(g, m)
    \/ tick_starts({NumberState(300)})
    \/ \E t \in in_flight : command_returns_to(t)

SpecAsync == Init /\ [][NextAsync]_vars

----------------------------------------------------------------------------
(* The snapshot over a device whose enumeration changes: GetAcs() is a     *)
(* list, so the units are numbered 0 .. len - 1; a zone names its owning   *)
(* unit by number.                                                         *)

\* the most units the device enumerates
MaxUnits == 2

\* a unit object the driver has just created: no attribute is set before
\* the unit's first status arrives
AirTouchAc == [PowerState |-> << >>, AcMode |-> << >>, AcFanSpeed |-> << >>]

\* UpdateInfo() on a healthy link after which GetAcs() has another length:
\* the units that remain keep their objects, the new ones are fresh
Reenumerate(ac, grp) ==
    {[acs |-> [n \in 0..(k - 1) |-> IF n \in DOMAIN ac THEN ac[n] ELSE AirTouchAc],
      groups |-> grp] : k \in 0..MaxUnits}

\* one refresh over a device whose list of units may change, the attributes
\* of the units and zones that remain staying as they are
_async_update_data_enumerating ==
    _async_update_data_from(Reenumerate(acs, groups))

\* AirtouchAC.__init__: self._unit = self._airtouch.GetAcs()[ac_number]
AirtouchAC(ac, ac_number) == [_ac_number |-> ac_number, _unit |-> ac[ac_number]]

\* custom_components/airtouch4/climate.py, AirtouchAC._handle_coordinator_update:
\* the entity after the callback, or the exception the callback raised
AirtouchAC__handle_coordinator_update(e, ac) ==
    IF e._ac_number \notin DOMAIN ac THEN [exc |-> "IndexError", value |-> e]
    ELSE [exc |-> "", value |-> [e EXCEPT !._unit = ac[e._ac_number]]]

\* airtouch4/climate.py, AirtouchAC._handle_coordinator_update: an index out
\* of range is logged and the callback returns
airtouch4_AirtouchAC__handle_coordinator_update(e, ac) ==
    IF e._ac_number \notin DOMAIN ac THEN [exc |-> "", value |-> e]
    ELSE [exc |-> "", value |-> [e EXCEPT !._unit = ac[e._ac_number]]]

\* the coordinator calls the update callback of the AirtouchAC entity of
\* class cls for unit n
HandleCoordinatorUpdate(cls, n, res) ==
    /\ ac_entities' = [ac_entities EXCEPT ![n] = res.value]
    /\ calls' = << >>
    /\ last' = [op |-> "_handle_coordinator_update", entity |-> cls, unit |-> n,
                exc |-> res.exc]
    /\ UNCHANGED <<acs, groups, Status, data, last_update_success, manual_climates,
                   entry, intervals, in_flight, flow>>

HandleCoordinatorUpdateAc(n) ==
    /\ last_update_success
    /\ HandleCoordinatorUpdate("AirtouchAC", n,
                               AirtouchAC__handle_coordinator_update(ac_entities[n], acs))

HandleCoordinatorUpdateAcAirtouch4(n) ==
    /\ last_update_success
    /\ HandleCoordinatorUpdate("airtouch4.AirtouchAC", n,
                               airtouch4_AirtouchAC__handle_coordinator_update(ac_entities[n], acs))

EnumSensorStates == {NumberState(300)}

\* zone 0 is percentage-actuated, belongs to the last unit and is exposed as
\* a manual climate
InitEnum ==
    /\ acs = [n \in 0..(MaxUnits - 1) |->
                 [PowerState |-> <<"On">>, AcMode |-> <<"Cool">>, AcFanSpeed |-> <<"Low">>]]
    /\ \E power \in {<< >>, <<"On">>}, percent \in {<< >>, <<55>>} :
          groups = [g \in {0} |->
                       [PowerState |-> power, OpenPercentage |-> percent,
                        BelongsToAc |-> <<MaxUnits - 1>>,
                        ControlMethod |-> <<"PercentageControl">>]]
    /\ Status = "OK"
    /\ data = build_data(acs, groups)
    /\ last_update_success = TRUE
    /\ manual_climates = <<ManualNonITCClimate(0, <<SensorOf(0)>>)>>
    /\ calls = << >>
    /\ last = [op |-> "async_setup_entry"]
    /\ entry = ConfigEntry("airtouch4_advanced", MODE_NONITC_CLIMATE,
                           [g \in {0} |-> SensorOf(0)], "LOADED")
    /\ intervals = <<"airtouch4", "airtouch4_advanced">>
    /\ in_flight = {}
    /\ ac_entities = [n \in DOMAIN acs |-> AirtouchAC(acs, n)]
    /\ flow = NoFlow

NextEnum ==
    \/ _async_update_data_enumerating
    \/ adjust_all_manual_climates(EnumSensorStates, FALSE)
    \/ adjust_all_manual_climates_advanced(EnumSensorStates, FALSE)
    \/ \E n \in DOMAIN ac_entities : HandleCoordinatorUpdateAc(n)
    \/ \E n \in DOMAIN ac_entities : HandleCoordinatorUpdateAcAirtouch4(n)

SpecEnum == InitEnum /\ [][NextEnum]_vars

\* the poll whose UpdateInfo() finds the link healthy
healthy_poll == _async_update_data_enumerating /\ Status' = "OK"

\* the coordinator reschedules its refresh after every refresh, failed or
\* not, and the link is healthy again and again
FairSpecEnum == SpecEnum /\ WF_vars(healthy_poll)

----------------------------------------------------------------------------
(* Fan speeds of the whole-unit entity.  A Python dict is the sequence of  *)
(* its (key, value) items in insertion order; where a key occurs twice the *)
(* later item is the one the dict holds.                                   *)

\* key in d
dict_has(items, key) == \E i \in DOMAIN items : items[i][1] = key

\* d[key], for key in d
dict_at(items, key) ==
    LET i == CHOOSE k \in DOMAIN items :
                 /\ items[k][1] = key
                 /\ \A j \in DOMAIN items : items[j][1] = key => j <= k
    IN  items[i][2]

\* d.get(key, default)
dict_get(items, key, default) ==
    IF dict_has(items, key) THEN dict_at(items, key) ELSE default

\* {value: key for key, value in d.items()}
dict_inverted(items) == [i \in DOMAIN items |-> <<items[i][2], items[i][1]>>]

\* AT_TO_HA_FAN_SPEED with Turbo shown as FAN_HIGH
AT_TO_HA_FAN_SPEED_turbo_as_high ==
    << <<"Quiet", "diffuse">>, <<"Low", "low">>, <<"Medium", "medium">>,
       <<"High", "high">>, <<"Powerful", "focus">>, <<"Auto", "auto">>,
       <<"Turbo", "high">> >>

\* AT_TO_HA_FAN_SPEED: FAN_DIFFUSE, FAN_LOW, FAN_MEDIUM, FAN_HIGH, FAN_FOCUS and
\* FAN_AUTO are "diffuse", "low", "medium", "high", "focus" and "auto"
AT_TO_HA_FAN_SPEED ==
    << <<"Quiet", "diffuse">>, <<"Low", "low">>, <<"Medium", "medium">>,
       <<"High", "high">>, <<"Powerful", "focus">>, <<"Auto", "auto">>,
       <<"Turbo", "turbo">> >>

HA_FAN_SPEED_TO_AT == dict_inverted(AT_TO_HA_FAN_SPEED)

\* [f(s) for s in speeds] where f raises KeyError off the table
fan_modes_indexed(speeds) ==
    IF \E i \in DOMAIN speeds : ~dict_has(AT_TO_HA_FAN_SPEED, speeds[i])
    THEN Raise("KeyError")
    ELSE Return([i \in DOMAIN speeds |-> dict_at(AT_TO_HA_FAN_SPEED, speeds[i])])

\* custom_components/airtouch4/climate.py, AirtouchAC.fan_mode: "None" is
\* Python's None
AirtouchAC_fan_mode(unit) ==
    Return(dict_get(AT_TO_HA_FAN_SPEED, getattr(attribute(unit, "AcFanSpeed"), "Auto"), "None"))

\* custom_components/airtouch4/climate.py, AirtouchAC.fan_modes; speeds is
\* GetSupportedFanSpeedsForAc(self._ac_number)
AirtouchAC_fan_modes(speeds) ==
    Return([i \in DOMAIN speeds |-> dict_get(AT_TO_HA_FAN_SPEED, speeds[i], "auto")])

\* airtouch4/climate.py, AirtouchAC.fan_mode
airtouch4_AirtouchAC_fan_mode(ac_unit) ==
    Return(dict_get(AT_TO_HA_FAN_SPEED, getattr(attribute(ac_unit, "AcFanSpeed"), "Auto"), "auto"))

\* airtouch4/climate.py, AirtouchAC.fan_modes
airtouch4_AirtouchAC_fan_modes(speeds) == fan_modes_indexed(speeds)

\* airtouch4/climate.py, AirtouchGroup.fan_mode; ac_unit is
\* self._airtouch.acs[self._unit.BelongsToAc]
airtouch4_AirtouchGroup_fan_mode(ac_unit) ==
    IF ~hasattr(attribute(ac_unit, "AcFanSpeed")) THEN Raise("AttributeError")
    ELSE IF ~dict_has(AT_TO_HA_FAN_SPEED, ac_unit.AcFanSpeed[1]) THEN Raise("KeyError")
    ELSE Return(dict_at(AT_TO_HA_FAN_SPEED, ac_unit.AcFanSpeed[1]))

\* airtouch4/climate.py, AirtouchGroup.fan_modes; speeds is
\* GetSupportedFanSpeedsByGroup(self._group_number)
airtouch4_AirtouchGroup_fan_modes(speeds) == fan_modes_indexed(speeds)

\* s in list
in_list(list, s) == \E i \in DOMAIN list : list[i] = s

\* the driver's SetFanSpeedForAc; a unit number the driver does not hold is
\* ignored
SetFanSpeedForAc(ac, n, speed) ==
    IF n \in DOMAIN ac THEN [ac EXCEPT ![n] = [@ EXCEPT !.AcFanSpeed = <<speed>>]]
    ELSE ac

\* the log entry of SetFanSpeedForAc(n, speed)
FanCall(n, speed) == [op |-> "SetFanSpeedForAc", id |-> n, arg |-> 0, speed |-> speed]

\* custom_components/airtouch4/climate.py, AirtouchAC.async_set_fan_mode
AirtouchAC_async_set_fan_mode(ac, grp, n, fan_mode) ==
    IF ~in_list(AirtouchAC_fan_modes(ac[n].SupportedFanSpeeds).value, fan_mode)
    THEN Done(ac, grp, << >>, "ValueError")
    ELSE LET raw_speed == dict_get(dict_inverted(AT_TO_HA_FAN_SPEED), fan_mode, "Auto")
         IN  Done(SetFanSpeedForAc(ac, n, raw_speed), grp, <<FanCall(n, raw_speed)>>, "")

\* airtouch4/climate.py, AirtouchAC.async_set_fan_mode
airtouch4_AirtouchAC_async_set_fan_mode(ac, grp, n, fan_mode) ==
    LET modes == airtouch4_AirtouchAC_fan_modes(ac[n].SupportedFanSpeeds)
    IN  IF modes.exc # "" THEN Done(ac, grp, << >>, modes.exc)
        ELSE IF ~in_list(modes.value, fan_mode) THEN Done(ac, grp, << >>, "ValueError")
        ELSE LET raw_speed == dict_at(HA_FAN_SPEED_TO_AT, fan_mode)
             IN  Done(SetFanSpeedForAc(ac, n, raw_speed), grp, <<FanCall(n, raw_speed)>>, "")

\* a set-fan-mode service call on the whole-unit entity of class cls: after
\* the driver call the entity takes GetAcs()[self._ac_number] as its unit
SetFanMode(cls, n, fan_mode, res) ==
    /\ acs' = res.acs
    /\ groups' = res.groups
    /\ calls' = res.calls
    /\ ac_entities' = IF res.exc = "" THEN [ac_entities EXCEPT ![n]._unit = res.acs[n]]
                      ELSE ac_entities
    /\ last' = [op |-> "async_set_fan_mode", entity |-> cls, unit |-> n, arg |-> fan_mode,
                exc |-> res.exc]
    /\ UNCHANGED <<Status, data, last_update_success, manual_climates, entry, intervals,
                   in_flight, flow>>

SetFanModeAc(n, fan_mode) ==
    SetFanMode("AirtouchAC", n, fan_mode,
               AirtouchAC_async_set_fan_mode(acs, groups, n, fan_mode))

SetFanModeAcAirtouch4(n, fan_mode) ==
    SetFanMode("airtouch4.AirtouchAC", n, fan_mode,
               airtouch4_AirtouchAC_async_set_fan_mode(acs, groups, n, fan_mode))

\* the fan speeds of the device
DEVICE_FAN_SPEEDS == {"Quiet", "Low", "Medium", "High", "Powerful", "Auto", "Turbo"}

\* homeassistant FAN_DIFFUSE, FAN_LOW, FAN_MEDIUM, FAN_HIGH, FAN_FOCUS, FAN_AUTO,
\* and the custom "turbo"
HA_FAN_SPEEDS == {"diffuse", "low", "medium", "high", "focus", "auto", "turbo"}

\* what the unit may report as its fan speed: no speed, a speed of the
\* table, or a speed the table does not have
ReportedFanSpeeds == {<< >>, <<"Silent">>} \cup {<<s>> : s \in DEVICE_FAN_SPEEDS}

\* what GetSupportedFanSpeedsForAc may return
SupportedFanSpeedLists ==
    {<<"Quiet", "Low", "Medium", "High", "Powerful", "Auto", "Turbo">>,
     <<"Auto", "Low", "High">>,
     <<"Auto", "Low", "Silent">>}

\* the fan modes a set-fan-mode service call is made with
RequestedFanModes == HA_FAN_SPEEDS \cup {"eco"}

InitFan ==
    /\ \E speed \in ReportedFanSpeeds, speeds \in SupportedFanSpeedLists :
          acs = [n \in {0} |-> [PowerState |-> <<"On">>, AcMode |-> <<"Cool">>,
                                AcFanSpeed |-> speed, SupportedFanSpeeds |-> speeds]]
    /\ groups = [g \in {0} |-> Zone(<<"On">>, <<100>>, "TemperatureControl")]
    /\ Status = "OK"
    /\ data = build_data(acs, groups)
    /\ last_update_success = TRUE
    /\ manual_climates = << >>
    /\ calls = << >>
    /\ last = [op |-> "async_setup_entry"]
    /\ entry = ConfigEntry("airtouch4_advanced", MODE_DEFAULT, << >>, "LOADED")
    /\ intervals = <<"airtouch4_advanced">>
    /\ in_flight = {}
    /\ ac_entities = [n \in DOMAIN acs |-> AirtouchAC(acs, n)]
    /\ flow = NoFlow

NextFan ==
    \/ \E n \in DOMAIN acs, m \in RequestedFanModes : SetFanModeAc(n, m)
    \/ \E n \in DOMAIN acs, m \in RequestedFanModes : SetFanModeAcAirtouch4(n, m)

SpecFan == InitFan /\ [][NextFan]_vars

----------------------------------------------------------------------------
(* What a whole-unit entity advertises and what its set handlers accept *)

\* custom_components/airtouch4/climate.py, AirtouchAC.hvac_modes; raw_modes is
\* GetSupportedCoolingModesForAc(self._ac_number)
AirtouchAC_hvac_modes(raw_modes) ==
    LET known == SelectSeq(raw_modes, LAMBDA m : m \in AT_TO_HA_STATE_KEYS)
    IN  [i \in DOMAIN known |-> AT_TO_HA_STATE(known[i])] \o <<"off">>

\* airtouch4/climate.py, AirtouchAC.hvac_modes, self._unit an AirTouchAc
airtouch4_AirtouchAC_hvac_modes == <<"off", "heat", "cool", "auto", "dry", "fan_only">>

\* what GetSupportedCoolingModesForAc may return: every mode, or the modes
\* of a cooling-only unit
SupportedCoolingModeLists ==
    {<<"Auto", "Heat", "Dry", "Fan", "Cool">>, <<"Cool", "Fan", "Dry">>}

InitSupported ==
    /\ \E power \in PolledAcPower, speeds \in SupportedFanSpeedLists,
          modes \in SupportedCoolingModeLists :
          acs = [n \in {0} |-> [PowerState |-> power, AcMode |-> <<"Cool">>,
                                AcFanSpeed |-> <<"Auto">>, SupportedFanSpeeds |-> speeds,
                                SupportedCoolingModes |-> modes]]
    /\ groups = [g \in {0} |-> Zone(<<"On">>, <<100>>, "TemperatureControl")]
    /\ Status = "OK"
    /\ data = build_data(acs, groups)
    /\ last_update_success = TRUE
    /\ manual_climates = << >>
    /\ calls = << >>
    /\ last = [op |-> "async_setup_entry"]
    /\ entry = ConfigEntry("airtouch4_advanced", MODE_DEFAULT, << >>, "LOADED")
    /\ intervals = <<"airtouch4_advanced">>
    /\ in_flight = {}
    /\ ac_entities = [n \in DOMAIN acs |-> AirtouchAC(acs, n)]
    /\ flow = NoFlow

NextSupported ==
    \/ \E n \in DOMAIN acs, m \in HVAC_MODES : SetHvacModeAc(n, m)
    \/ \E n \in DOMAIN acs, m \in HVAC_MODES : SetHvacModeAcAirtouch4(n, m)
    \/ \E n \in DOMAIN acs, m \in RequestedFanModes : SetFanModeAc(n, m)
    \/ \E n \in DOMAIN acs, m \in RequestedFanModes : SetFanModeAcAirtouch4(n, m)

SpecSupported == InitSupported /\ [][NextSupported]_vars

----------------------------------------------------------------------------
(* The setpoint of a thermostatic zone and its bounds, in whole degrees *)

\* the driver's SetGroupToTemperature
SetGroupToTemperature(grp, g, temp) ==
    [grp EXCEPT ![g] = [@ EXCEPT !.TargetSetpoint = <<temp>>]]

\* custom_components/airtouch4/climate.py, AirtouchGroup.async_set_temperature;
\* temp is kwargs.get(ATTR_TEMPERATURE) in tenths of a degree, << >> for None
AirtouchGroup_async_set_temperature(ac, grp, g, temp) ==
    IF temp = << >> THEN Done(ac, grp, << >>, "")
    ELSE Done(ac, SetGroupToTemperature(grp, g, int(temp[1], 10)),
              <<Call("SetGroupToTemperature", g, int(temp[1], 10))>>, "")

\* airtouch4/climate.py, AirtouchGroup.async_set_temperature
airtouch4_AirtouchGroup_async_set_temperature(ac, grp, g, temp) ==
    IF temp = << >> THEN Done(ac, grp, << >>, "")
    ELSE Done(ac, SetGroupToTemperature(grp, g, int(temp[1], 10)),
              <<Call("SetGroupToTemperature", g, int(temp[1], 10))>>, "")

\* custom_components/airtouch4/climate.py, AirtouchGroup.min_temp
AirtouchGroup_min_temp(ac, unit) ==
    LET belongs_to == getattr(attribute(unit, "BelongsToAc"), 0)
    IN  IF belongs_to \notin DOMAIN ac THEN Return(16)
        ELSE Return(getattr(attribute(ac[belongs_to], "MinSetpoint"), 16))

\* custom_components/airtouch4/climate.py, AirtouchGroup.max_temp
AirtouchGroup_max_temp(ac, unit) ==
    LET belongs_to == getattr(attribute(unit, "BelongsToAc"), 0)
    IN  IF belongs_to \notin DOMAIN ac THEN Return(30)
        ELSE Return(getattr(attribute(ac[belongs_to], "MaxSetpoint"), 30))

\* airtouch4/climate.py, AirtouchGroup.min_temp
airtouch4_AirtouchGroup_min_temp(ac, unit) ==
    IF ~hasattr(attribute(unit, "BelongsToAc")) THEN Raise("AttributeError")
    ELSE IF unit.BelongsToAc[1] \notin DOMAIN ac THEN Raise("IndexError")
    ELSE IF ~hasattr(attribute(ac[unit.BelongsToAc[1]], "MinSetpoint"))
    THEN Raise("AttributeError")
    ELSE Return(ac[unit.BelongsToAc[1]].MinSetpoint[1])

\* airtouch4/climate.py, AirtouchGroup.max_temp
airtouch4_AirtouchGroup_max_temp(ac, unit) ==
    IF ~hasattr(attribute(unit, "BelongsToAc")) THEN Raise("AttributeError")
    ELSE IF unit.BelongsToAc[1] \notin DOMAIN ac THEN Raise("IndexError")
    ELSE IF ~hasattr(attribute(ac[unit.BelongsToAc[1]], "MaxSetpoint"))
    THEN Raise("AttributeError")
    ELSE Return(ac[unit.BelongsToAc[1]].MaxSetpoint[1])

\* a set-temperature service call on the zone climate of class cls
SetTemperature(cls, g, temp, res) ==
    /\ acs' = res.acs
    /\ groups' = res.groups
    /\ calls' = res.calls
    /\ last' = [op |-> "async_set_temperature", entity |-> cls, group |-> g, arg |-> temp,
                exc |-> res.exc]
    /\ UNCHANGED <<Status, data, last_update_success, manual_climates>>
    /\ UNCHANGED runtime

SetTemperatureGroup(g, temp) ==
    SetTemperature("AirtouchGroup", g, temp,
                   AirtouchGroup_async_set_temperature(acs, groups, g, temp))

SetTemperatureGroupAirtouch4(g, temp) ==
    SetTemperature("airtouch4.AirtouchGroup", g, temp,
                   airtouch4_AirtouchGroup_async_set_temperature(acs, groups, g, temp))

\* the temperatures a set-temperature service call on a zone climate is made
\* with: none, 10.0, 16.0, 22.5, 30.0 and 35.0
RequestedSetpoints == {<< >>, <<100>>, <<160>>, <<225>>, <<300>>, <<350>>}

\* the setpoint limits a unit object may carry: none, or 18 and 28
UnitSetpointLimits ==
    {[PowerState |-> <<"On">>, AcMode |-> <<"Cool">>],
     [PowerState |-> <<"On">>, AcMode |-> <<"Cool">>, MinSetpoint |-> <<18>>,
      MaxSetpoint |-> <<28>>]}

InitSetpoint ==
    /\ \E unit \in UnitSetpointLimits : acs = [n \in {0} |-> unit]
    /\ groups = [g \in {0} |-> Zone(<<"On">>, <<100>>, "TemperatureControl")
                               @@ [TargetSetpoint |-> <<22>>]]
    /\ Status = "OK"
    /\ data = build_data(acs, groups)
    /\ last_update_success = TRUE
    /\ manual_climates = << >>
    /\ calls = << >>
    /\ last = [op |-> "async_setup_entry"]
    /\ entry = ConfigEntry("airtouch4_advanced", MODE_DEFAULT, << >>, "LOADED")
    /\ intervals = <<"airtouch4_advanced">>
    /\ in_flight = {}
    /\ ac_entities = [n \in DOMAIN acs |-> AirtouchAC(acs, n)]
    /\ flow = NoFlow

NextSetpoint ==
    \/ \E g \in ThermostaticZones, t \in RequestedSetpoints : SetTemperatureGroup(g, t)
    \/ \E g \in ThermostaticZones, t \in RequestedSetpoints : SetTemperatureGroupAirtouch4(g, t)
    \/ _async_update_data_enumerating

SpecSetpoint == InitSetpoint /\ [][NextSetpoint]_vars

----------------------------------------------------------------------------
(* The config flows: custom_components/airtouch4_advanced/config_flow.py and *)
(* airtouch4/config_flow.py. A step runs to the result it returns; the flow  *)
(* manager shows the form of a form result and creates the entry of a       *)
(* create-entry result.                                                      *)

\* the flow handler after __init__, with the entries that exist
NewFlow(pkg, entries) ==
    [pkg |-> pkg, step |-> "none", entries |-> entries, _discovered_ips |-> << >>,
     _current_ip_index |-> 0, _host |-> << >>, _non_itc_zones |-> << >>,
     _setup_mode |-> MODE_DEFAULT, _temp_sensors |-> << >>]

\* what a step returns, and the handler as the step left it
FlowResult(f, result) == [flow |-> f, result |-> result]

\* async_show_form, async_create_entry and AbortFlow
Form(step_id, errors) == [type |-> "form", step_id |-> step_id, errors |-> errors]

CreateEntry(f) ==
    [type |-> "create_entry",
     data |-> [host |-> f._host[1], setup_mode |-> f._setup_mode,
               nonitc_sensors |-> f._temp_sensors]]

Abort(reason) == [type |-> "abort", reason |-> reason]

\* [z for z in GetGroups() if z.ControlMethod == "PercentageControl"], as
\* zone numbers
non_itc_zones(grp) ==
    SelectSeq(group_numbers(DOMAIN grp),
              LAMBDA g : grp[g].ControlMethod = <<"PercentageControl">>)

\* self._zone_name_to_id: GroupName -> GroupNumber, a later zone replacing an
\* earlier one of the same name
zone_name_to_id(zones, grp) ==
    [name \in {grp[zones[i]].GroupName[1] : i \in DOMAIN zones} |->
        LET i == CHOOSE i \in DOMAIN zones :
                     /\ grp[zones[i]].GroupName[1] = name
                     /\ \A j \in DOMAIN zones : grp[zones[j]].GroupName[1] = name => j <= i
        IN  zones[i]]

\* async_step_zone_mode(None): the form is shown
async_step_zone_mode_form(f) == FlowResult(f, Form("zone_mode", ""))

\* airtouch4_advanced AirtouchConfigFlow.async_step_validate_device; ok is
\* whether UpdateInfo() on the device at self._host leaves Status OK
async_step_validate_device(f, grp, user_input, ok) ==
    IF user_input # << >> THEN async_step_zone_mode_form(f)
    ELSE IF ok THEN async_step_zone_mode_form([f EXCEPT !._non_itc_zones = non_itc_zones(grp)])
    ELSE FlowResult(f, Form("validate_device", "cannot_connect"))

\* airtouch4_advanced AirtouchConfigFlow.async_step_finish
async_step_finish(f, grp, ok) ==
    IF \E i \in DOMAIN f.entries : f.entries[i].host = f._host[1]
    THEN FlowResult(f, Abort("already_configured"))
    ELSE LET entry_result == CreateEntry(f)
             k == f._current_ip_index + 1
         IN  IF k < Len(f._discovered_ips)
             THEN async_step_validate_device(
                      [f EXCEPT !._current_ip_index = k, !._host = <<f._discovered_ips[k + 1]>>],
                      grp, << >>, ok)
             ELSE FlowResult([f EXCEPT !._current_ip_index = k], entry_result)

\* airtouch4_advanced AirtouchConfigFlow.async_step_nonitc_sensors;
\* user_input is << >> for None, else <<the submitted dictionary>>
async_step_nonitc_sensors(f, grp, user_input, ok) ==
    LET ids == zone_name_to_id(f._non_itc_zones, grp)
        missing_sensor ==
            \E zone_name \in DOMAIN ids :
                zone_name \notin DOMAIN user_input[1] \/ user_input[1][zone_name] = ""
        chosen == [zone_id \in {ids[n] : n \in DOMAIN ids} |->
                      user_input[1][CHOOSE n \in DOMAIN ids : ids[n] = zone_id]]
        finished == async_step_finish([f EXCEPT !._temp_sensors = chosen @@ @], grp, ok)
    IN  IF user_input = << >> THEN FlowResult(f, Form("nonitc_sensors", ""))
        ELSE IF missing_sensor THEN FlowResult(f, Form("nonitc_sensors", "missing_sensor"))
        ELSE IF finished.result.type = "abort"
        THEN FlowResult(finished.flow, Form("nonitc_sensors", "unknown"))
        ELSE finished

\* airtouch4_advanced AirtouchConfigFlow.async_step_zone_mode with user input
async_step_zone_mode(f, grp, setup_mode, ok) ==
    LET chosen == [f EXCEPT !._setup_mode = setup_mode]
    IN  IF setup_mode = MODE_NONITC_CLIMATE /\ f._non_itc_zones # << >>
        THEN async_step_nonitc_sensors(chosen, grp, << >>, ok)
        ELSE async_step_finish(chosen, grp, ok)

\* airtouch4_advanced AirtouchConfigFlow.async_step_user; ips is what
\* async_discover_devices returns
async_step_user(f, grp, user_input, ips, ok) ==
    IF user_input # << >>
    THEN async_step_validate_device([f EXCEPT !._host = user_input], grp, << >>, ok)
    ELSE IF ips = << >> THEN FlowResult([f EXCEPT !._discovered_ips = ips], Form("user", ""))
    ELSE async_step_validate_device(
             [f EXCEPT !._discovered_ips = ips, !._current_ip_index = 0, !._host = <<ips[1]>>],
             grp, << >>, ok)

\* z.GroupName.lower().replace(" ", "_").replace("-", "_")
safe_name(GroupName) ==
    CASE GroupName = "Bed 1" -> "bed_1"
      [] GroupName = "bed-1" -> "bed_1"
      [] GroupName = "Living" -> "living"
      [] GroupName = "Hall" -> "hall"

\* airtouch4 AirTouch4ConfigFlow.async_step_finish
airtouch4_async_step_finish(f) == FlowResult(f, CreateEntry(f))

\* airtouch4 AirTouch4ConfigFlow.async_step_nonitc_sensors; the key of a
\* zone's field is safe_name + "_sensor", written here as safe_name
airtouch4_async_step_nonitc_sensors(f, grp, user_input) ==
    LET zs == f._non_itc_zones
        key(z) == safe_name(grp[z].GroupName[1])
        missing_sensor ==
            \E i \in DOMAIN zs :
                key(zs[i]) \notin DOMAIN user_input[1] \/ user_input[1][key(zs[i])] = ""
        chosen == [z \in {zs[i] : i \in DOMAIN zs} |-> user_input[1][key(z)]]
    IN  IF user_input = << >> THEN FlowResult(f, Form("nonitc_sensors", ""))
        ELSE IF missing_sensor THEN FlowResult(f, Form("nonitc_sensors", "missing_sensor"))
        ELSE airtouch4_async_step_finish([f EXCEPT !._temp_sensors = chosen @@ @])

\* airtouch4 AirTouch4ConfigFlow.async_step_zone_mode with user input
airtouch4_async_step_zone_mode(f, grp, setup_mode) ==
    LET chosen == [f EXCEPT !._setup_mode = setup_mode]
    IN  IF setup_mode = MODE_NONITC_CLIMATE /\ f._non_itc_zones # << >>
        THEN airtouch4_async_step_nonitc_sensors(chosen, grp, << >>)
        ELSE airtouch4_async_step_finish(chosen)

\* airtouch4 AirTouch4ConfigFlow.async_step_user: the abort of
\* _async_abort_entries_match is raised inside the try and caught with the
\* connection errors
airtouch4_async_step_user(f, grp, user_input, ok) ==
    IF user_input = << >> THEN FlowResult(f, Form("user", ""))
    ELSE IF \E i \in DOMAIN f.entries : f.entries[i].host = user_input[1]
    THEN FlowResult(f, Form("user", "cannot_connect"))
    ELSE IF ~ok THEN FlowResult(f, Form("user", "cannot_connect"))
    ELSE FlowResult([f EXCEPT !._host = user_input, !._non_itc_zones = non_itc_zones(grp)],
                    Form("zone_mode", ""))

\* the flow manager takes the result of a step
FlowStep(op, user_input, res) ==
    /\ flow' = CASE res.result.type = "form" -> [res.flow EXCEPT !.step = res.result.step_id]
                 [] res.result.type = "create_entry" ->
                        [res.flow EXCEPT !.step = "done",
                                         !.entries = Append(@, res.result.data)]
                 [] res.result.type = "abort" -> [res.flow EXCEPT !.step = "abort"]
    /\ last' = [op |-> op, user_input |-> user_input, result |-> res.result]
    /\ UNCHANGED <<acs, groups, Status, data, last_update_success, manual_climates, calls,
                   entry, intervals, in_flight, ac_entities>>

\* what device discovery may find, and the host a user may type
DiscoveredLists == {<< >>, <<"10.0.0.1">>, <<"10.0.0.1", "10.0.0.2">>}

ManualHosts == {"10.0.0.1"}

SensorChoices == {"", "sensor.a", "sensor.b"}

\* the dictionaries a sensor form over the fields keys may be submitted with
SensorInputs(keys) == UNION {[K -> SensorChoices] : K \in SUBSET keys}

\* a user starts the flow of package pkg
StartFlow(pkg) ==
    /\ flow.step \in {"none", "done", "abort"}
    /\ \E ips \in DiscoveredLists, ok \in BOOLEAN :
          FlowStep("async_step_user", << >>,
                   IF pkg = "airtouch4_advanced"
                   THEN async_step_user(NewFlow(pkg, flow.entries), groups, << >>, ips, ok)
                   ELSE airtouch4_async_step_user(NewFlow(pkg, flow.entries), groups, << >>, ok))

SubmitUser ==
    /\ flow.step = "user"
    /\ \E host \in ManualHosts, ok \in BOOLEAN :
          FlowStep("async_step_user", <<host>>,
                   IF flow.pkg = "airtouch4_advanced"
                   THEN async_step_user(flow, groups, <<host>>, << >>, ok)
                   ELSE airtouch4_async_step_user(flow, groups, <<host>>, ok))

SubmitValidateDevice ==
    /\ flow.step = "validate_device"
    /\ FlowStep("async_step_validate_device", <<"{}">>,
                async_step_validate_device(flow, groups, <<"{}">>, TRUE))

SubmitZoneMode ==
    /\ flow.step = "zone_mode"
    /\ \E setup_mode \in {MODE_DEFAULT, MODE_NONITC_FAN, MODE_NONITC_CLIMATE}, ok \in BOOLEAN :
          FlowStep("async_step_zone_mode", <<setup_mode>>,
                   IF flow.pkg = "airtouch4_advanced"
                   THEN async_step_zone_mode(flow, groups, setup_mode, ok)
                   ELSE airtouch4_async_step_zone_mode(flow, groups, setup_mode))

\* the fields of the sensor form
SensorFormKeys ==
    IF flow.pkg = "airtouch4_advanced"
    THEN DOMAIN zone_name_to_id(flow._non_itc_zones, groups)
    ELSE {safe_name(groups[flow._non_itc_zones[i]].GroupName[1]) :
              i \in DOMAIN flow._non_itc_zones}

SubmitSensors ==
    /\ flow.step = "nonitc_sensors"
    /\ \E user_input \in SensorInputs(SensorFormKeys), ok \in BOOLEAN :
          FlowStep("async_step_nonitc_sensors", <<user_input>>,
                   IF flow.pkg = "airtouch4_advanced"
                   THEN async_step_nonitc_sensors(flow, groups, <<user_input>>, ok)
                   ELSE airtouch4_async_step_nonitc_sensors(flow, groups, <<user_input>>))

\* the display names two percentage zones may carry
ZoneNames == {"Bed 1", "bed-1", "Living"}

InitFlow ==
    /\ acs = [n \in {0} |-> [PowerState |-> <<"On">>, AcMode |-> <<"Cool">>]]
    /\ \E name \in ZoneNames, percentage \in {{}, {0, 1}} :
          groups = [g \in {0, 1, 2} |->
                       IF g \in percentage
                       THEN Zone(<<"On">>, <<55>>, "PercentageControl")
                            @@ [GroupName |-> <<IF g = 0 THEN "Bed 1" ELSE name>>]
                       ELSE Zone(<<"On">>, <<100>>, "TemperatureControl")
                            @@ [GroupName |-> <<"Hall">>]]
    /\ Status = "OK"
    /\ data = build_data(acs, groups)
    /\ last_update_success = TRUE
    /\ manual_climates = << >>
    /\ calls = << >>
    /\ last = [op |-> "none"]
    /\ entry = ConfigEntry("airtouch4_advanced", MODE_DEFAULT, << >>, "NOT_LOADED")
    /\ intervals = << >>
    /\ in_flight = {}
    /\ ac_entities = << >>
    /\ flow = NoFlow

NextFlow ==
    \/ \E pkg \in {"airtouch4", "airtouch4_advanced"} : StartFlow(pkg)
    \/ SubmitUser
    \/ SubmitValidateDevice
    \/ SubmitZoneMode
    \/ SubmitSensors

SpecFlow == InitFlow /\ [][NextFlow]_vars

----------------------------------------------------------------------------
(* The options flow of airtouch4_advanced and the reload that follows it *)

\* entry.options.get("setup_mode") or entry.data.get("setup_mode")
options_setup_mode(e) ==
    IF e.options # << >> THEN e.options[1].setup_mode ELSE e.setup_mode

\* entry.options.get("nonitc_sensors") or entry.data.get("nonitc_sensors", {}):
\* an empty dictionary in the options counts as none
options_sensor_map(e) ==
    IF e.options # << >> /\ DOMAIN e.options[1].nonitc_sensors # {}
    THEN e.options[1].nonitc_sensors
    ELSE e.nonitc_sensors

\* AirtouchOptionsFlow.__init__ and async_step_init
AirtouchOptionsFlow_async_step_init(e, grp, entries) ==
    LET f == [pkg |-> "airtouch4_advanced", step |-> "none", entries |-> entries,
              setup_mode |-> options_setup_mode(e),
              existing_sensors |-> options_sensor_map(e),
              _non_itc_zones |-> << >>]
    IN  IF f.setup_mode # MODE_NONITC_CLIMATE
        THEN FlowResult(f, Abort("reconfigure_not_supported"))
        ELSE IF non_itc_zones(grp) = << >> THEN FlowResult(f, Abort("no_zones"))
        ELSE FlowResult([f EXCEPT !._non_itc_zones = non_itc_zones(grp)],
                        Form("options_nonitc_sensors", ""))

\* AirtouchOptionsFlow.async_step_nonitc_sensors with user input: the result
\* carries the new options
AirtouchOptionsFlow_async_step_nonitc_sensors(f, grp, user_input) ==
    LET ids == zone_name_to_id(f._non_itc_zones, grp)
        selected(n) == n \in DOMAIN user_input /\ user_input[n] # ""
        kept == {n \in DOMAIN ids : selected(n) \/ ids[n] \in DOMAIN f.existing_sensors}
        name_of(zone_id) == CHOOSE n \in kept : ids[n] = zone_id
        new_sensors == [zone_id \in {ids[n] : n \in kept} |->
                           IF selected(name_of(zone_id)) THEN user_input[name_of(zone_id)]
                           ELSE f.existing_sensors[zone_id]]
    IN  FlowResult(f, [type |-> "update_options",
                       data |-> [setup_mode |-> f.setup_mode, nonitc_sensors |-> new_sensors]])

\* the user opens the options of the loaded entry
OptionsInit ==
    /\ entry.state = "LOADED"
    /\ entry.pkg = "airtouch4_advanced"
    /\ flow.step \in {"none", "done", "abort"}
    /\ LET res == AirtouchOptionsFlow_async_step_init(entry, groups, flow.entries)
       IN  /\ flow' = [res.flow EXCEPT !.step = IF res.result.type = "form"
                                                 THEN res.result.step_id ELSE "abort"]
           /\ last' = [op |-> "AirtouchOptionsFlow.async_step_init", result |-> res.result]
    /\ UNCHANGED <<acs, groups, Status, data, last_update_success, manual_climates, calls,
                   entry, intervals, in_flight, ac_entities>>

\* the user submits the sensor form of the options; the flow manager stores
\* the result's data as the entry's options
OptionsSubmit ==
    /\ flow.step = "options_nonitc_sensors"
    /\ \E user_input \in SensorInputs(DOMAIN zone_name_to_id(flow._non_itc_zones, groups)) :
          LET res == AirtouchOptionsFlow_async_step_nonitc_sensors(flow, groups, user_input)
          IN  /\ flow' = [res.flow EXCEPT !.step = "done"]
              /\ entry' = [entry EXCEPT !.options = <<res.result.data>>]
              /\ last' = [op |-> "AirtouchOptionsFlow.async_step_nonitc_sensors",
                          user_input |-> <<user_input>>, result |-> res.result]
    /\ UNCHANGED <<acs, groups, Status, data, last_update_success, manual_climates, calls,
                   intervals, in_flight, ac_entities>>

OptionsSensorStates == {NumberState(300)}

InitOptions ==
    /\ acs = [n \in {0} |-> [PowerState |-> <<"On">>, AcMode |-> <<"Cool">>]]
    /\ \E name \in {"Bed 1", "Living"} :
          groups = [g \in {0, 1, 2} |->
                       IF g = 2 THEN Zone(<<"On">>, <<100>>, "TemperatureControl")
                                     @@ [GroupName |-> <<"Hall">>]
                       ELSE Zone(<<"On">>, <<55>>, "PercentageControl")
                            @@ [GroupName |-> <<IF g = 0 THEN "Bed 1" ELSE name>>]]
    /\ Status = "OK"
    /\ data = build_data(acs, groups)
    /\ last_update_success = TRUE
    /\ manual_climates = << >>
    /\ calls = << >>
    /\ last = [op |-> "async_create_entry"]
    /\ \E setup_mode \in {MODE_DEFAULT, MODE_NONITC_CLIMATE}, bound \in {{0}, {0, 1}} :
          entry = ConfigEntry("airtouch4_advanced", setup_mode,
                              [g \in bound |-> SensorOf(g)], "NOT_LOADED")
    /\ intervals = << >>
    /\ in_flight = {}
    /\ ac_entities = << >>
    /\ flow = NoFlow

NextOptions ==
    \/ async_setup_entry
    \/ async_reload_entry
    \/ OptionsInit
    \/ OptionsSubmit
    \/ \E k \in 1..MaxIntervals : interval_fires(k, OptionsSensorStates)

SpecOptions == InitOptions /\ [][NextOptions]_vars

----------------------------------------------------------------------------
(* A percentage zone exposed as a fan: airtouch4_advanced/fan.py and         *)
(* airtouch4/fan.py                                                          *)

\* AirtouchFan.async_turn_off, the same in both packages
AirtouchFan_async_turn_off(ac, grp, g) ==
    Done(ac, SetGroupPower(grp, g, "Off"), <<Call("TurnGroupOff", g, 0)>>, "")

\* AirtouchFan.async_set_percentage sending 0 to the damper as any other value
AirtouchFan_async_set_percentage_zero_sent(ac, grp, g, percentage) ==
    Done(ac, SetGroupToPercentage(grp, g, percentage),
         <<Call("SetGroupToPercentage", g, percentage)>>, "")

\* airtouch4_advanced/fan.py, AirtouchFan.async_set_percentage; int() of an
\* integer percentage is the percentage
AirtouchFan_async_set_percentage(ac, grp, g, percentage) ==
    IF percentage = 0 THEN AirtouchFan_async_turn_off(ac, grp, g)
    ELSE Done(ac, SetGroupToPercentage(grp, g, int(percentage, 1)),
              <<Call("SetGroupToPercentage", g, int(percentage, 1))>>, "")

\* airtouch4/fan.py, AirtouchFan.async_set_percentage
airtouch4_AirtouchFan_async_set_percentage(ac, grp, g, percentage) ==
    IF percentage = 0 THEN AirtouchFan_async_turn_off(ac, grp, g)
    ELSE Done(ac, SetGroupToPercentage(grp, g, percentage),
              <<Call("SetGroupToPercentage", g, percentage)>>, "")

\* airtouch4_advanced/fan.py, AirtouchFan.async_turn_on; percentage is << >>
\* for None
AirtouchFan_async_turn_on(ac, grp, g, percentage) ==
    LET on == SetGroupPower(grp, g, "On")
        set == AirtouchFan_async_set_percentage(ac, on, g, percentage[1])
    IN  IF percentage = << >> THEN Done(ac, on, <<Call("TurnGroupOn", g, 0)>>, "")
        ELSE Done(set.acs, set.groups, <<Call("TurnGroupOn", g, 0)>> \o set.calls, set.exc)

\* a service call on the fan entity of class cls for zone g
FanCommand(op, cls, g, arg, res) ==
    /\ acs' = res.acs
    /\ groups' = res.groups
    /\ calls' = res.calls
    /\ last' = [op |-> op, entity |-> cls, group |-> g, arg |-> arg, exc |-> res.exc]
    /\ UNCHANGED <<Status, data, last_update_success, manual_climates>>
    /\ UNCHANGED runtime

SetPercentageFan(g, percentage) ==
    FanCommand("async_set_percentage", "AirtouchFan", g, <<percentage>>,
               AirtouchFan_async_set_percentage(acs, groups, g, percentage))

SetPercentageFanAirtouch4(g, percentage) ==
    FanCommand("async_set_percentage", "airtouch4.AirtouchFan", g, <<percentage>>,
               airtouch4_AirtouchFan_async_set_percentage(acs, groups, g, percentage))

TurnOnFan(g, percentage) ==
    FanCommand("async_turn_on", "AirtouchFan", g, percentage,
               AirtouchFan_async_turn_on(acs, groups, g, percentage))

TurnOffFan(g) ==
    FanCommand("async_turn_off", "AirtouchFan", g, << >>,
               AirtouchFan_async_turn_off(acs, groups, g))

\* the percentages a fan service call is made with
RequestedPercentages == {0, 1, 5, 35, 50, 100}

\* the zones exposed as fans
FanZones == {g \in DOMAIN groups : groups[g].ControlMethod = <<"PercentageControl">>}

InitZoneFan ==
    /\ acs = [n \in {0} |-> [PowerState |-> <<"On">>, AcMode |-> <<"Cool">>]]
    /\ \E power \in {<<"On">>, <<"Off">>} :
          groups = [g \in {0, 1} |->
                       IF g = 0 THEN Zone(power, <<55>>, "PercentageControl")
                       ELSE Zone(<<"On">>, <<100>>, "TemperatureControl")]
    /\ Status = "OK"
    /\ data = build_data(acs, groups)
    /\ last_update_success = TRUE
    /\ manual_climates = << >>
    /\ calls = << >>
    /\ last = [op |-> "async_setup_entry"]
    /\ entry = ConfigEntry("airtouch4_advanced", MODE_NONITC_FAN, << >>, "LOADED")
    /\ intervals = <<"airtouch4_advanced">>
    /\ in_flight = {}
    /\ ac_entities = << >>
    /\ flow = NoFlow

NextZoneFan ==
    \/ \E g \in FanZones, p \in RequestedPercentages : SetPercentageFan(g, p)
    \/ \E g \in FanZones, p \in RequestedPercentages : SetPercentageFanAirtouch4(g, p)
    \/ \E g \in FanZones, p \in {<< >>} \cup {<<q>> : q \in RequestedPercentages} : TurnOnFan(g, p)
    \/ \E g \in FanZones : TurnOffFan(g)
    \/ _async_update_data

SpecZoneFan == InitZoneFan /\ [][NextZoneFan]_vars

----------------------------------------------------------------------------
(* The target of a manual climate under every handler that runs on it *)

\* the temperatures a set-temperature service call is made with: none, 18.0
\* and 26.5
RequestedTemperatures == {<< >>, <<180>>, <<265>>}

TargetSensorStates == {TextState("unavailable"), NumberState(300)}

NextTarget ==
    \/ _async_update_data
    \/ adjust_all_manual_climates_advanced(TargetSensorStates, FALSE)
    \/ \E g \in DOMAIN groups, m \in {"off", "fan_only"} : SetHvacModeManual(g, m)
    \/ \E g \in DOMAIN groups : TurnOnManual(g)
    \/ \E g \in DOMAIN groups : TurnOffManual(g)
    \/ \E i \in 1..Len(manual_climates) : HandleCoordinatorUpdateManual(i)
    \/ \E i \in 1..Len(manual_climates), t \in RequestedTemperatures :
          ManualNonITCClimate_async_set_temperature(i, t)

SpecTarget == Init /\ [][NextTarget]_vars

----------------------------------------------------------------------------
(* The control law on one zone, over a grid of tenths of a degree *)

\* the readings: every whole degree from LawMinReading to LawMaxReading
\* degrees, and every tenth of a degree from LawFineFrom to LawFineFrom +
\* LawFineCount tenths
LawMinReading == 14
LawMaxReading == 42
LawFineFrom == 215
LawFineCount == 20

LawReadings ==
    {NumberState(10 * d) : d \in LawMinReading..LawMaxReading}
        \cup {NumberState(n) : n \in LawFineFrom..(LawFineFrom + LawFineCount)}

LawTargets == {150, 200, 220, 400, 450}

LawApertures == {<< >>, <<10>>, <<55>>}

InitLaw ==
    /\ \E mode \in {<< >>} \cup {<<m>> : m \in DEVICE_MODES} :
          acs = [n \in {0} |-> [PowerState |-> <<"On">>, AcMode |-> mode]]
    /\ \E percent \in LawApertures :
          groups = [g \in {0} |-> [PowerState |-> <<"On">>, OpenPercentage |-> percent,
                                   BelongsToAc |-> <<0>>,
                                   ControlMethod |-> <<"PercentageControl">>]]
    /\ Status = "OK"
    /\ data = build_data(acs, groups)
    /\ last_update_success = TRUE
    /\ manual_climates = <<ManualNonITCClimate(0, <<SensorOf(0)>>)>>
    /\ calls = << >>
    /\ last = [op |-> "async_setup_entry"]
    /\ Running

NextLaw ==
    \/ adjust_all_manual_climates_advanced(LawReadings, FALSE)
    \/ \E t \in LawTargets : ManualNonITCClimate_async_set_temperature(1, <<t>>)

SpecLaw == InitLaw /\ [][NextLaw]_vars

----------------------------------------------------------------------------
(* Vocabulary of the properties: the state a tick ran in and what it did. *)
(* A tick changes neither the power states, the unit modes nor the         *)
(* targets, so after a tick they are the ones the tick read.                *)

IsTick == last.op = "adjust_all_manual_climates"

\* the positions of manual_climates the tick visited
Visited == IF IsTick THEN DOMAIN last.outs ELSE {}

ZoneAt(i) == groups[manual_climates[i]._group_number]

TargetAt(i) == manual_climates[i]._target_temp

ZoneIsOff(zone) == zone.PowerState \in {<< >>, <<"Off">>}

UnitResolves(zone) == zone.BelongsToAc # << >> /\ zone.BelongsToAc[1] \in DOMAIN acs

UnitIsOff(zone) == UnitResolves(zone) /\ acs[zone.BelongsToAc[1]].PowerState \in {<< >>, <<"Off">>}

\* the state of the sensor bound to the entity at position i when the tick ran
SensorAt(i) ==
    IF manual_climates[i]._sensor_entity_id = << >> THEN NoState
    ELSE last.states[manual_climates[i]._sensor_entity_id[1]]

SensorUnavailable(i) == SensorAt(i).state # "number"

ReadingAt(i) == SensorAt(i).number

PreconditionsHold(i) ==
    /\ ~ZoneIsOff(ZoneAt(i))
    /\ UnitResolves(ZoneAt(i))
    /\ ~UnitIsOff(ZoneAt(i))
    /\ ~SensorUnavailable(i)

\* the device mode of the owning unit; "" when the unit reports none
UnitModeAt(i) ==
    LET mode == acs[ZoneAt(i).BelongsToAc[1]].AcMode
    IN  IF mode = << >> THEN "" ELSE mode[1]

CoolingFamily == {"Cool", "AutoCool", "Auto", "Dry"}

HeatingFamily == {"Heat", "AutoHeat"}

\* the aperture passed to SetGroupToPercentage at position i: << >> for none
IssuedAt(i) == last.outs[i].call

\* m is a multiple of 5 nearest to the rational num / den, den > 0
NearestStepTo(m, num, den) == m % 5 = 0 /\ 2 * Abs(num - m * den) <= 5 * den

\* C1: a tick issues no driver call for the zone of a manual climate whose
\* zone is Off, or whose owning unit is Off, or whose sensor has no state,
\* reads 'unknown' or 'unavailable', or does not read a number.
C1_GatedZoneGetsNoCall ==
    IsTick =>
        \A i \in 1..Len(manual_climates) :
            (ZoneIsOff(ZoneAt(i)) \/ UnitIsOff(ZoneAt(i)) \/ SensorUnavailable(i))
                => /\ \A k \in DOMAIN calls : calls[k].id # manual_climates[i]._group_number
                   /\ i \in Visited => IssuedAt(i) = << >>

C1_Witness ==
    /\ IsTick
    /\ \E i \in Visited :
          /\ ~ZoneIsOff(ZoneAt(i))
          /\ UnitResolves(ZoneAt(i))
          /\ ~UnitIsOff(ZoneAt(i))
          /\ SensorAt(i) = TextState("unavailable")
          /\ last.outs[i].ret = "no_temp"
          /\ calls = << >>

C1_WitnessZoneOff ==
    /\ IsTick
    /\ \E i \in Visited :
          /\ ZoneAt(i).PowerState = <<"Off">>
          /\ ~UnitIsOff(ZoneAt(i))
          /\ ~SensorUnavailable(i)
          /\ last.outs[i].ret = "group_off"
          /\ calls = << >>

C1_WitnessUnitOff ==
    /\ IsTick
    /\ \E i \in Visited :
          /\ ~ZoneIsOff(ZoneAt(i))
          /\ UnitIsOff(ZoneAt(i))
          /\ ~SensorUnavailable(i)
          /\ last.outs[i].ret = "ac_off"
          /\ calls = << >>

\* C2: every aperture passed to SetGroupToPercentage is a multiple of 5 in
\* 20..100, whatever the reading, the target, the unit mode and the
\* device-reported aperture.
C2_ApertureInRange ==
    \A i \in Visited :
        IssuedAt(i) # << >> =>
            /\ IssuedAt(i)[1] % 5 = 0
            /\ IssuedAt(i)[1] >= 20
            /\ IssuedAt(i)[1] <= 100

\* the target is the boundary constant of the active direction and the
\* reading is on the demand side
DegenerateAt(i) ==
    \/ UnitModeAt(i) \in CoolingFamily /\ TargetAt(i) = 400 /\ ReadingAt(i) > TargetAt(i)
    \/ UnitModeAt(i) \in HeatingFamily /\ TargetAt(i) = 150 /\ ReadingAt(i) < TargetAt(i)

\* C3: with the target equal to the boundary constant of the active
\* direction (40 cooling, 15 heating) and the reading on the demand side,
\* the tick does not fail: it issues aperture 100.
C3_DegenerateDivisorGuarded ==
    \A i \in Visited :
        PreconditionsHold(i) /\ DegenerateAt(i) =>
            last.outs[i].exc = "" /\ IssuedAt(i) = <<100>>

\* the driver commands of the last handler that name zone g
CallsForZone(g) == SelectSeq(calls, LAMBDA c : c.id = g /\ c.op # "async_request_refresh")

\* C11: a tick for a zone whose three preconditions hold issues exactly one
\* driver command, a SetGroupToPercentage for that zone, and neither another
\* kind of command nor a coordinator refresh request.
C11_ExactlyOneApertureCommand ==
    IsTick =>
        \A i \in 1..Len(manual_climates) :
            PreconditionsHold(i) =>
                /\ Len(CallsForZone(manual_climates[i]._group_number)) = 1
                /\ \A k \in DOMAIN calls : calls[k].op = "SetGroupToPercentage"

IsPoll == last.op = "_async_update_data"

\* C4: a poll that finds the driver's status other than OK fails with
\* UpdateFailed and leaves the committed snapshot as it was.
C4_FailedPollKeepsSnapshot ==
    [][(IsPoll' /\ Status' # "OK") =>
          /\ last'.exc = "UpdateFailed"
          /\ ~last_update_success'
          /\ data' = data]_vars

C4_Witness ==
    /\ IsPoll
    /\ Status = "CONNECTION_LOST"
    /\ last.exc = "UpdateFailed"
    /\ data.groups[0].power_state = "Off"
    /\ groups[0].PowerState = <<"On">>

\* C5: an exception raised while one zone is adjusted is not propagated
\* out of the tick and does not keep the tick from adjusting the zones after
\* it in the list.
C5_FailureIsolated ==
    IsTick => last.exc = "" /\ Visited = 1..Len(manual_climates)

IsSetMode == last.op = "async_set_hvac_mode"

\* C6: a set-mode request on a zone climate or a manual climate for a mode
\* other than Off and FanOnly is rejected with an error, without a driver
\* call.
C6_OtherModeRejected ==
    (IsSetMode /\ last.arg \notin {"off", "fan_only"}) =>
        last.exc # "" /\ calls = << >>

\* the operating state view is right for the zone object zone
OperatingStateOf(view, zone) ==
    /\ view \in {"off", "fan_only"}
    /\ zone.PowerState = <<"Off">> => view = "off"
    /\ zone.PowerState = <<"On">> => view = "fan_only"

\* C7: the operating state of a zone climate and of a manual climate is Off
\* when the zone's power is Off and FanOnly otherwise, and never another
\* value or none.
C7_OperatingStateTwoValued ==
    /\ \A g \in ThermostaticZones :
          /\ OperatingStateOf(AirtouchGroup_hvac_mode(groups[g]), groups[g])
          /\ OperatingStateOf(airtouch4_AirtouchGroup_hvac_mode(groups[g]), groups[g])
    /\ \A g \in ManualZones :
          OperatingStateOf(ManualNonITCClimate_hvac_mode(groups[g]), groups[g])

PowerOps == {"TurnGroupOn", "TurnGroupOff", "TurnAcOn", "TurnAcOff"}

IsEntityCommand == last.op \in {"async_set_hvac_mode", "async_turn_on", "async_turn_off"}

\* C14: a command handler that issues a unit power or zone power command
\* requests a coordinator refresh after its driver calls, before it returns.
C14_PowerCommandThenRefresh ==
    (IsEntityCommand /\ \E k \in DOMAIN calls : calls[k].op \in PowerOps) =>
        calls[Len(calls)] = RefreshRequest

IsUnitEntity == last.entity \in {"AirtouchAC", "airtouch4.AirtouchAC"}

\* the driver commands of the last handler, without its refresh requests
DriverCalls == SelectSeq(calls, LAMBDA c : c.op # "async_request_refresh")

\* C16: on the whole-unit entity, set-mode Off issues exactly TurnAcOff and
\* no SetCoolingModeForAc; set-mode with any other mode of the table issues
\* SetCoolingModeForAc with the mapped device mode and then TurnAcOn,
\* whether the unit was on or off.
C16_UnitModeCommandOrder ==
    (last.op = "async_set_hvac_mode" /\ IsUnitEntity) =>
        /\ last.arg = "off" => DriverCalls = <<Call("TurnAcOff", last.unit, 0)>>
        /\ last.arg \in HA_STATE_TO_AT_KEYS \ {"off"} =>
              DriverCalls = <<ModeCall(last.unit, HA_STATE_TO_AT(last.arg)),
                              Call("TurnAcOn", last.unit, 0)>>

C16_Witness ==
    /\ last.op = "async_set_hvac_mode"
    /\ last.entity = "AirtouchAC"
    /\ last.arg = "dry"
    /\ data.acs[0].power_state = "On"
    /\ data.acs[0].ac_mode = "Cool"
    /\ calls = <<ModeCall(0, "Dry"), Call("TurnAcOn", 0, 0)>>
    /\ acs[0].AcMode = <<"Dry">>

IsZoneClimate == last.entity \in {"AirtouchGroup", "airtouch4.AirtouchGroup"}

\* C15: turning a thermostatic zone on issues TurnGroupOn for the zone, then
\* TurnAcOn for its owning unit, then a refresh request; turning it off
\* issues TurnGroupOff for the zone, then a refresh request.
C15_ZonePowerCommandOrder ==
    /\ (last.op = "async_turn_on" /\ IsZoneClimate) =>
          calls = <<Call("TurnGroupOn", last.group, 0),
                    Call("TurnAcOn", groups[last.group].BelongsToAc[1], 0),
                    RefreshRequest>>
    /\ (last.op = "async_turn_off" /\ IsZoneClimate) =>
          calls = <<Call("TurnGroupOff", last.group, 0), RefreshRequest>>

C15_Witness ==
    /\ last.op = "async_turn_on"
    /\ last.entity = "AirtouchGroup"
    /\ calls = <<Call("TurnGroupOn", 1, 0), Call("TurnAcOn", 0, 0), RefreshRequest>>
    /\ data.groups[1].power_state = "Off"
    /\ data.acs[0].power_state = "Off"
    /\ groups[1].PowerState = <<"On">>
    /\ acs[0].PowerState = <<"On">>

\* the zone object as the committed snapshot has it
SnapshotZone(g) ==
    [groups[g] EXCEPT !.PowerState = IF data.groups[g].power_state = "Unknown" THEN << >>
                                     ELSE <<data.groups[g].power_state>>,
                      !.OpenPercentage = <<data.groups[g].open_percent>>]

\* C17: what an entity reports and what the controller gates on agree
\* with the latest committed snapshot in every reachable state: the zone
\* entities' operating state is the one the snapshot's zone power gives.
C17_ViewsFollowSnapshot ==
    /\ \A g \in ThermostaticZones :
          AirtouchGroup_hvac_mode(groups[g]) = AirtouchGroup_hvac_mode(SnapshotZone(g))
    /\ \A g \in ManualZones :
          ManualNonITCClimate_hvac_mode(groups[g]) = ManualNonITCClimate_hvac_mode(SnapshotZone(g))

\* C12: driver calls are serialized: no command of an entity or of the tick
\* is awaited while the poll's UpdateInfo is awaited.
C12_DriverCallsSerialized ==
    \A t, u \in in_flight :
        t.handler = "_async_update_data" => u.handler = "_async_update_data"

\* C21: an operation that addresses a unit no longer enumerated is skipped
\* without raising and without a driver command: the update callback of a
\* unit entity whose index is out of range, and the tick for a zone that is
\* on and whose owning unit does not resolve.
C21_StaleReferenceSkipped ==
    /\ (last.op = "_handle_coordinator_update" /\ last.unit \notin DOMAIN acs) =>
          last.exc = "" /\ calls = << >>
    /\ IsTick =>
          \A i \in 1..Len(manual_climates) :
              (~ZoneIsOff(ZoneAt(i)) /\ ~UnitResolves(ZoneAt(i))) =>
                  last.exc = "" /\ calls = << >>

\* C22: a successful poll records a unit without power state as Off,
\* without mode as Fan and without fan speed as Auto, a zone without power
\* state as Off and without aperture as 0.
C22_SnapshotDefaults ==
    (IsPoll /\ last.exc = "") =>
        /\ \A n \in DOMAIN acs :
              /\ acs[n].PowerState = << >> => data.acs[n].power_state = "Off"
              /\ acs[n].AcMode = << >> => data.acs[n].ac_mode = "Fan"
              /\ attribute(acs[n], "AcFanSpeed") = << >> => data.acs[n].fan_speed = "Auto"
        /\ \A g \in DOMAIN groups :
              /\ groups[g].PowerState = << >> => data.groups[g].power_state = "Off"
              /\ groups[g].OpenPercentage = << >> => data.groups[g].open_percent = 0

\* C23: in the snapshot a successful poll commits, the owning unit of every
\* zone is a unit of that snapshot.
C23_OwningUnitInSnapshot ==
    (IsPoll /\ last.exc = "") =>
        \A g \in DOMAIN data.groups :
            /\ groups[g].BelongsToAc # << >>
            /\ groups[g].BelongsToAc[1] \in DOMAIN data.acs

\* C24: a poll that finds the link healthy commits the snapshot built from
\* the driver's objects, whether or not the polls before it failed, and
\* after a failed poll a successful one eventually follows.
C24_PollRecovers ==
    /\ [][(IsPoll' /\ Status' = "OK") =>
             /\ last'.exc = ""
             /\ last_update_success'
             /\ data' = build_data(acs', groups')]_vars
    /\ (~last_update_success ~> last_update_success)

C24_Witness ==
    /\ IsPoll
    /\ last.recovered
    /\ Status = "OK"
    /\ last_update_success
    /\ data = build_data(acs, groups)
    /\ DOMAIN data.acs = {0}

\* C25: a setup that finds no unit aborts: the entry is not loaded, no
\* snapshot is stored, no tick is scheduled and no entity is created; a
\* setup whose first refresh succeeds and finds a unit loads the entry and
\* schedules its tick.
C25_SetupAbortsWithoutUnits ==
    [][last'.op = "async_setup_entry" =>
          /\ DOMAIN acs = {} =>
                /\ last'.exc = "ConfigEntryNotReady"
                /\ entry'.state # "LOADED"
                /\ data' = data
                /\ intervals' = intervals
                /\ manual_climates' = manual_climates
          /\ (DOMAIN acs # {} /\ Status' = "OK") =>
                /\ last'.exc = ""
                /\ entry'.state = "LOADED"
                /\ data' = build_data(acs, groups)
                /\ intervals' = Append(intervals, entry.pkg)]_vars

C25_Witness ==
    /\ last.op = "async_setup_entry"
    /\ Status = "OK"
    /\ DOMAIN acs = {}
    /\ last.exc = "ConfigEntryNotReady"
    /\ entry.state = "SETUP_RETRY"
    /\ intervals = << >>
    /\ manual_climates = << >>

\* C26: the target of a manual climate is 24.0 at creation; a
\* set-temperature command that carries a temperature makes it that
\* temperature, and no other handler (poll, update callback, tick, power
\* command, mode command) changes it.
C26_TargetOnlyBySetTemperature ==
    /\ \A i \in 1..Len(manual_climates) : manual_climates[i]._target_temp = 240
    /\ [][\A i \in 1..Len(manual_climates) :
             IF last'.op = "async_set_temperature" /\ last'.pos = i /\ last'.arg # << >>
             THEN manual_climates'[i]._target_temp = last'.arg[1]
             ELSE manual_climates'[i]._target_temp = manual_climates[i]._target_temp]_vars

C26_Witness ==
    /\ IsTick
    /\ manual_climates[1]._target_temp = 265
    /\ IssuedAt(1) # << >>
    /\ data.groups[0].power_state = "Unknown"

\* C27: setting the target of a manual climate issues no driver command
\* and leaves the driver's unit and zone objects as they are.
C27_SetTemperatureIsLocal ==
    [][last'.op = "async_set_temperature" =>
          /\ calls' = << >>
          /\ acs' = acs
          /\ groups' = groups]_vars

C27_Witness ==
    /\ last.op = "async_set_temperature"
    /\ last.arg = <<180>>
    /\ manual_climates[1]._target_temp = 180
    /\ calls = << >>
    /\ groups[0].PowerState = <<"On">>
    /\ groups[0].OpenPercentage = <<50>>

\* C28: for every mode other than Off that the whole-unit entity supports
\* (heat, cool, auto, dry, fan_only), the device mode HA_STATE_TO_AT gives is
\* mapped back to the same mode by AT_TO_HA_STATE; after a set-mode command
\* the unit holds that device mode and the entity reports the mode
\* requested.
C28_ModeRoundTrip ==
    /\ \A m \in HA_STATE_TO_AT_KEYS \ {"off"} :
          /\ HA_STATE_TO_AT(m) \in AT_TO_HA_STATE_KEYS
          /\ AT_TO_HA_STATE(HA_STATE_TO_AT(m)) = m
    /\ (last.op = "async_set_hvac_mode" /\ IsUnitEntity
          /\ last.arg \in HA_STATE_TO_AT_KEYS \ {"off"}) =>
          /\ acs[last.unit].AcMode = <<HA_STATE_TO_AT(last.arg)>>
          /\ AirtouchAC_hvac_mode(acs[last.unit]) = last.arg
          /\ airtouch4_AirtouchAC_hvac_mode(acs[last.unit]) = Return(last.arg)

C28_Witness ==
    /\ last.op = "async_set_hvac_mode"
    /\ last.entity = "airtouch4.AirtouchAC"
    /\ last.arg = "auto"
    /\ data.acs[0].ac_mode = "Fan"
    /\ acs[0].AcMode = <<"Auto">>
    /\ AirtouchAC_hvac_mode(acs[0]) = "auto"

\* C29: the fan-speed table maps the seven device speeds one-to-one onto
\* the seven abstract speeds: device to abstract and back is the identity on
\* the device speeds, abstract to device and back the identity on the
\* abstract speeds; after a set-fan-mode command the entity reports the
\* speed requested.
C29_FanSpeedBijection ==
    /\ \A d \in DEVICE_FAN_SPEEDS :
          /\ dict_has(AT_TO_HA_FAN_SPEED, d)
          /\ dict_at(AT_TO_HA_FAN_SPEED, d) \in HA_FAN_SPEEDS
          /\ dict_get(HA_FAN_SPEED_TO_AT, dict_at(AT_TO_HA_FAN_SPEED, d), "None") = d
    /\ \A a \in HA_FAN_SPEEDS :
          /\ dict_has(HA_FAN_SPEED_TO_AT, a)
          /\ dict_at(HA_FAN_SPEED_TO_AT, a) \in DEVICE_FAN_SPEEDS
          /\ dict_get(AT_TO_HA_FAN_SPEED, dict_at(HA_FAN_SPEED_TO_AT, a), "None") = a
    /\ (last.op = "async_set_fan_mode" /\ last.exc = "") =>
          /\ AirtouchAC_fan_mode(ac_entities[last.unit]._unit) = Return(last.arg)
          /\ airtouch4_AirtouchAC_fan_mode(acs[last.unit]) = Return(last.arg)

C29_Witness ==
    /\ last.op = "async_set_fan_mode"
    /\ last.entity = "AirtouchAC"
    /\ last.arg = "focus"
    /\ last.exc = ""
    /\ calls = <<FanCall(0, "Powerful")>>
    /\ acs[0].AcFanSpeed = <<"Powerful">>
    /\ data.acs[0].fan_speed = "Quiet"

\* a fan-speed view does not fail and shows auto for the device speed raw
FallsBackToAuto(view, raw) ==
    /\ view.exc = ""
    /\ ~dict_has(AT_TO_HA_FAN_SPEED, raw) => view.value = "auto"

\* C30: with a device fan speed that the table does not have, reading the
\* entity's fan speed and its list of supported fan speeds does not fail
\* and gives auto for that speed.
C30_UnknownFanSpeedIsAuto ==
    \A n \in DOMAIN acs :
        /\ hasattr(attribute(acs[n], "AcFanSpeed")) =>
              /\ FallsBackToAuto(AirtouchAC_fan_mode(acs[n]), acs[n].AcFanSpeed[1])
              /\ FallsBackToAuto(airtouch4_AirtouchAC_fan_mode(acs[n]), acs[n].AcFanSpeed[1])
        /\ \A i \in DOMAIN acs[n].SupportedFanSpeeds :
              LET raw == acs[n].SupportedFanSpeeds[i]
                  modes == AirtouchAC_fan_modes(acs[n].SupportedFanSpeeds)
                  modes4 == airtouch4_AirtouchAC_fan_modes(acs[n].SupportedFanSpeeds)
              IN  /\ modes.exc = "" /\ modes4.exc = ""
                  /\ ~dict_has(AT_TO_HA_FAN_SPEED, raw) =>
                        modes.value[i] = "auto" /\ modes4.value[i] = "auto"

\* the abstract mode the specification's table gives for a device mode
AbstractModeOf(raw_mode) ==
    IF raw_mode \in {"AutoHeat", "AutoCool", "Auto"} THEN "auto"
    ELSE IF raw_mode = "Heat" THEN "heat"
    ELSE IF raw_mode = "Cool" THEN "cool"
    ELSE IF raw_mode = "Dry" THEN "dry"
    ELSE "fan_only"

\* C31: the whole-unit entity reports off whenever the unit's power is Off,
\* whatever its mode; with the power On it reports the unit's device mode
\* mapped by the table: Heat to heat, Cool to cool, AutoHeat, AutoCool and
\* Auto to auto, Dry to dry, Fan to fan_only.
C31_UnitOperatingState ==
    \A n \in DOMAIN acs :
        /\ acs[n].PowerState = <<"Off">> =>
              /\ AirtouchAC_hvac_mode(acs[n]) = "off"
              /\ airtouch4_AirtouchAC_hvac_mode(acs[n]) = Return("off")
        /\ (acs[n].PowerState = <<"On">> /\ acs[n].AcMode # << >>
              /\ acs[n].AcMode[1] \in DEVICE_MODES) =>
              /\ AirtouchAC_hvac_mode(acs[n]) = AbstractModeOf(acs[n].AcMode[1])
              /\ airtouch4_AirtouchAC_hvac_mode(acs[n]) = Return(AbstractModeOf(acs[n].AcMode[1]))

C31_Witness ==
    /\ last.op = "async_turn_on"
    /\ last.entity = "AirtouchAC"
    /\ data.acs[0].power_state = "Off"
    /\ acs[0].PowerState = <<"On">>
    /\ acs[0].AcMode = <<"AutoHeat">>
    /\ AirtouchAC_hvac_mode(acs[0]) = "auto"

\* the last handler was a set-mode or set-fan-mode call on a whole-unit
\* entity with an argument the entity does not advertise for its unit
UnsupportedRequest ==
    /\ "entity" \in DOMAIN last
    /\ \/ /\ last.op = "async_set_hvac_mode"
          /\ last.entity = "AirtouchAC"
          /\ ~in_list(AirtouchAC_hvac_modes(acs[last.unit].SupportedCoolingModes), last.arg)
       \/ /\ last.op = "async_set_hvac_mode"
          /\ last.entity = "airtouch4.AirtouchAC"
          /\ ~in_list(airtouch4_AirtouchAC_hvac_modes, last.arg)
       \/ /\ last.op = "async_set_fan_mode"
          /\ last.entity = "AirtouchAC"
          /\ ~in_list(AirtouchAC_fan_modes(acs[last.unit].SupportedFanSpeeds).value, last.arg)
       \/ /\ last.op = "async_set_fan_mode"
          /\ last.entity = "airtouch4.AirtouchAC"
          /\ LET modes == airtouch4_AirtouchAC_fan_modes(acs[last.unit].SupportedFanSpeeds)
             IN  modes.exc # "" \/ ~in_list(modes.value, last.arg)

\* C32: on the whole-unit entity a requested mode or fan speed that is not in
\* the set the entity advertises for its unit is rejected with an error, and
\* no driver call is made.
C32_UnsupportedRequestRejected ==
    UnsupportedRequest => (last.exc # "" /\ calls = << >>)

\* the owning unit of zone g cannot be looked up
OwningUnitMissing(g) ==
    ~hasattr(attribute(groups[g], "BelongsToAc")) \/ groups[g].BelongsToAc[1] \notin DOMAIN acs

\* the setpoint limits of zone g: those of its owning unit, 16 and 30 when
\* the unit cannot be looked up or carries none
MinSetpointOf(g) ==
    IF OwningUnitMissing(g) THEN 16
    ELSE getattr(attribute(acs[groups[g].BelongsToAc[1]], "MinSetpoint"), 16)

MaxSetpointOf(g) ==
    IF OwningUnitMissing(g) THEN 30
    ELSE getattr(attribute(acs[groups[g].BelongsToAc[1]], "MaxSetpoint"), 30)

\* the setpoint commands of the last handler are within the zone's limits
SetpointCommandsInBounds ==
    \A i \in DOMAIN calls :
        calls[i].op = "SetGroupToTemperature" =>
            (MinSetpointOf(calls[i].id) <= calls[i].arg /\ calls[i].arg <= MaxSetpointOf(calls[i].id))

\* with the owning unit missing, both limits read as 16 and 30 without failing
BoundsReadWithoutUnit ==
    \A g \in ThermostaticZones :
        OwningUnitMissing(g) =>
            /\ AirtouchGroup_min_temp(acs, groups[g]) = Return(16)
            /\ AirtouchGroup_max_temp(acs, groups[g]) = Return(30)
            /\ airtouch4_AirtouchGroup_min_temp(acs, groups[g]) = Return(16)
            /\ airtouch4_AirtouchGroup_max_temp(acs, groups[g]) = Return(30)

\* C33: every setpoint command a thermostatic-zone entity sends carries a
\* value within the owning unit's minimum and maximum setpoint, and when the
\* owning unit cannot be looked up the limits are 16 and 30 and reading them
\* does not fail.
C33_SetpointWithinUnitBounds ==
    SetpointCommandsInBounds /\ BoundsReadWithoutUnit

\* C34: with the preconditions holding and the target strictly between 15
\* and 40 degrees, a cooling-family unit with a reading of 40 degrees or more
\* gets aperture 100, and a heating-family unit with a reading of 15 degrees
\* or less gets aperture 100.
C34_SaturatesAtFullAperture ==
    \A i \in Visited :
        (/\ PreconditionsHold(i)
         /\ 150 < TargetAt(i) /\ TargetAt(i) < 400
         /\ \/ UnitModeAt(i) \in CoolingFamily /\ ReadingAt(i) >= 400
            \/ UnitModeAt(i) \in HeatingFamily /\ ReadingAt(i) <= 150)
        => IssuedAt(i) = <<100>>

C34_Witness ==
    /\ IsTick
    /\ \E i \in Visited :
          /\ PreconditionsHold(i)
          /\ TargetAt(i) = 220
          /\ UnitModeAt(i) = "AutoHeat"
          /\ ReadingAt(i) < 150
          /\ IssuedAt(i) = <<100>>
          /\ last.outs[i].ret = "adjusted"

\* C35: on a tick each manual-climate zone receives at most one aperture
\* command, whatever setups, unloads and reloads came before: neither several
\* registry entries for a zone nor several tick handlers duplicate it.
C35_OneApertureCommandPerZone ==
    IsTick =>
        \A g \in DOMAIN groups :
            Len(SelectSeq(calls, LAMBDA c : c.op = "SetGroupToPercentage" /\ c.id = g)) <= 1

\* the classes of the entities in list that expose zone g
ExposuresOf(list, g) ==
    LET mine == SelectSeq(list, LAMBDA entity : entity.group = g)
    IN  [i \in DOMAIN mine |-> mine[i].cls]

\* the one entity the three setup modes prescribe for zone g
PrescribedExposure(g) ==
    IF groups[g].ControlMethod = <<"TemperatureControl">> THEN <<"AirtouchGroup">>
    ELSE IF entry.setup_mode = MODE_NONITC_FAN THEN <<"AirtouchFan">>
    ELSE IF entry.setup_mode = MODE_NONITC_CLIMATE THEN <<"ManualNonITCClimate">>
    ELSE <<"AirtouchGroup">>

\* the climate and fan platforms of custom_components expose every zone as
\* prescribed
ExposedAsPrescribed ==
    entry.state = "LOADED" =>
        \A g \in DOMAIN groups :
            ExposuresOf(climate_zone_entities(entry, groups) \o fan_entities(entry, data), g)
                = PrescribedExposure(g)

\* the climate and fan platforms of src/airtouch4 expose every zone as
\* prescribed
ExposedAsPrescribedAirtouch4 ==
    entry.state = "LOADED" =>
        \A g \in DOMAIN groups :
            ExposuresOf(airtouch4_climate_zone_entities(entry, groups)
                            \o airtouch4_fan_entities(entry, groups), g)
                = PrescribedExposure(g)

\* C36: in each of the three setup modes every zone is exposed by exactly
\* one entity: a thermostatic zone by a zone climate; a percentage zone by a
\* fan in fan mode, by a manual climate in manual-climate mode and by a zone
\* climate in default mode.
C36_OneEntityPerZone == ExposedAsPrescribed /\ ExposedAsPrescribedAirtouch4

\* the percentage zones of the device
PercentageZones == {g \in DOMAIN groups : groups[g].ControlMethod = <<"PercentageControl">>}

\* the created entry data binds a sensor to zone g
BindsSensor(entry_data, g) ==
    g \in DOMAIN entry_data.nonitc_sensors /\ entry_data.nonitc_sensors[g] # ""

\* every entry the wizard created in manual-climate mode binds a sensor to
\* every percentage zone
CreatedEntriesBindEveryZone ==
    \A i \in DOMAIN flow.entries :
        flow.entries[i].setup_mode = MODE_NONITC_CLIMATE =>
            \A g \in PercentageZones : BindsSensor(flow.entries[i], g)

\* the sensor form was submitted without a sensor for the field of some zone
SubmittedWithoutSensor ==
    /\ last.op = "async_step_nonitc_sensors"
    /\ last.user_input # << >>
    /\ \E i \in DOMAIN flow._non_itc_zones :
          LET name == groups[flow._non_itc_zones[i]].GroupName[1]
              field == IF flow.pkg = "airtouch4_advanced" THEN name ELSE safe_name(name)
          IN  field \notin DOMAIN last.user_input[1] \/ last.user_input[1][field] = ""

\* C37: an entry the wizard creates in manual-climate mode holds a sensor
\* binding for every percentage zone, also when two zones carry the same
\* display name, and the sensor step does not finish while a zone lacks one.
C37_EveryPercentageZoneBound ==
    /\ CreatedEntriesBindEveryZone
    /\ SubmittedWithoutSensor => (last.result.type = "form" /\ flow.step = "nonitc_sensors")

\* the flow went through discovery and has passed the finish step of the
\* devices before _current_ip_index
FinishedDevices ==
    IF "_discovered_ips" \in DOMAIN flow /\ flow.pkg = "airtouch4_advanced"
    THEN {k \in 1..Len(flow._discovered_ips) : k <= flow._current_ip_index}
    ELSE {}

\* C38: in a discovery wizard over several devices the finish step for
\* device k creates the entry of device k and then moves on to device k+1:
\* every device the wizard has finished has its entry.
C38_NoEntryLost ==
    \A k \in FinishedDevices :
        \E i \in DOMAIN flow.entries : flow.entries[i].host = flow._discovered_ips[k]

\* the instance for zone g that the latest setup created: the last one in
\* the registry
NewestInstanceOf(g) ==
    LET i == CHOOSE i \in 1..Len(manual_climates) :
                 /\ manual_climates[i]._group_number = g
                 /\ \A j \in 1..Len(manual_climates) :
                        manual_climates[j]._group_number = g => j <= i
    IN  manual_climates[i]

\* C39: after the options flow has saved a sensor binding and the entry was
\* reloaded, the controller of the zone reads the newly bound sensor: the
\* options take precedence over the entry's data.
C39_ReloadTakesOptionsBinding ==
    (/\ last.op = "async_reload_entry"
     /\ last.exc = ""
     /\ entry.options # << >>) =>
        \A g \in DOMAIN entry.options[1].nonitc_sensors :
            g \in ManualZones =>
                NewestInstanceOf(g)._sensor_entity_id = <<entry.options[1].nonitc_sensors[g]>>

\* the last handler was a set-percentage call on a fan entity
IsSetPercentage ==
    /\ last.op = "async_set_percentage"
    /\ last.entity \in {"AirtouchFan", "airtouch4.AirtouchFan"}

\* C40: on a fan zone entity, setting percentage 0 issues the zone's
\* power-off command and no aperture command; setting a non-zero percentage
\* p issues exactly one aperture command with the value p and no power
\* command.
C40_SetPercentageCommands ==
    IsSetPercentage =>
        IF last.arg[1] = 0
        THEN calls = <<Call("TurnGroupOff", last.group, 0)>>
        ELSE calls = <<Call("SetGroupToPercentage", last.group, last.arg[1])>>

C40_Witness ==
    /\ IsSetPercentage
    /\ last.arg = <<0>>
    /\ calls = <<Call("TurnGroupOff", 0, 0)>>
    /\ groups[0].PowerState = <<"Off">>
    /\ groups[0].OpenPercentage = <<35>>

\* C18: once the config entry is unloaded, the tick its setup registered
\* does not fire again: no tick issues an aperture command while the entry
\* is unloaded.
C18_NoTickAfterUnload == (IsTick /\ calls # << >>) => entry.state = "LOADED"

\* C19: while the config entry is unloaded, manual_climates holds none of
\* the controller instances created for it.
C19_RegistryEmptiedOnUnload == entry.state = "NOT_LOADED" => manual_climates = << >>

\* C20: every controller instance is for a percentage-actuated zone that
\* has a sensor bound in the entry, and such a zone of a loaded entry in
\* manual-climate mode has an instance.
C20_InstanceIffBoundPercentageZone ==
    /\ \A i \in 1..Len(manual_climates) :
          /\ groups[manual_climates[i]._group_number].ControlMethod = <<"PercentageControl">>
          /\ manual_climates[i]._sensor_entity_id # << >>
    /\ (entry.state = "LOADED" /\ entry.setup_mode = MODE_NONITC_CLIMATE) =>
          \A g \in DOMAIN entry.nonitc_sensors :
              groups[g].ControlMethod = <<"PercentageControl">> => g \in ManualZones

\* the unit is in a cooling-family mode with the reading at or below the
\* target, or in a heating-family mode with the reading at or above it
SatisfiedAt(i) ==
    \/ UnitModeAt(i) \in CoolingFamily /\ ReadingAt(i) <= TargetAt(i)
    \/ UnitModeAt(i) \in HeatingFamily /\ ReadingAt(i) >= TargetAt(i)

\* C8: when the three preconditions hold and the reading is not on the
\* demand side of the target (cooling family: reading <= target, heating
\* family: reading >= target), the aperture issued is exactly 20.
C8_SatisfiedIssuesMinimum ==
    \A i \in Visited :
        PreconditionsHold(i) /\ SatisfiedAt(i) => IssuedAt(i) = <<20>>

C8_Witness ==
    /\ IsTick
    /\ \E i \in Visited :
          /\ PreconditionsHold(i)
          /\ UnitModeAt(i) = "Dry"
          /\ ReadingAt(i) < TargetAt(i)
          /\ IssuedAt(i) = <<20>>
          /\ last.outs[i].ret = "adjusted"

\* the reading is on the demand side of the target
DemandAt(i) ==
    \/ UnitModeAt(i) \in CoolingFamily /\ ReadingAt(i) > TargetAt(i)
    \/ UnitModeAt(i) \in HeatingFamily /\ ReadingAt(i) < TargetAt(i)

\* m is a multiple of 5 nearest to 20 + fraction * 80, where fraction is
\* num / den clamped to [0, 1] (1 when den = 0)
NearestToBlend(m, num, den) ==
    IF den = 0 \/ (den > 0 /\ num >= den) THEN m = 100
    ELSE IF den < 0 THEN m = 20
    ELSE NearestStepTo(m, 20 * den + 80 * num, den)

\* C9: with the reading on the demand side, the aperture issued is the
\* multiple of 5 nearest to the exact blend 20 + fraction * 80, fraction =
\* clamp((c - t) / (40 - t), 0, 1) when cooling, clamp((t - c) / (t - 15),
\* 0, 1) when heating.
C9_NearestStepOfExactBlend ==
    \A i \in Visited :
        PreconditionsHold(i) /\ DemandAt(i) =>
            /\ IssuedAt(i) # << >>
            /\ IF UnitModeAt(i) \in CoolingFamily
               THEN NearestToBlend(IssuedAt(i)[1], ReadingAt(i) - TargetAt(i), 400 - TargetAt(i))
               ELSE NearestToBlend(IssuedAt(i)[1], TargetAt(i) - ReadingAt(i), TargetAt(i) - 150)

====
